---- MODULE Spec2Model ----
(***************************************************************************)
(* State-machine model of the mesh data plane core:                        *)
(*   ChunkStore  (src/ChunkStore.cpp)  chunking, framing, AES-GCM,         *)
(*               content addressing, write-through persistence             *)
(*   Consensus   (src/Consensus.cpp)   per-chunk DAG ledger                *)
(*   Scheduler   (src/Scheduler.cpp)   device scoring and replica placement*)
(*   Routing     (src/Routing.cpp)     link graph, Dijkstra, chunk index   *)
(*                                                                         *)
(* Byte vectors are sequences of integers.  Library primitives are         *)
(* modelled by what they guarantee: zstd as a frame carrying the content   *)
(* size followed by the content, SHA-256 as a collision-free digest,       *)
(* PBKDF2 as a collision-free function of (password, salt), AES-GCM as an  *)
(* ideal AEAD whose tag binds key, iv and ciphertext.  Integers >= 256     *)
(* stand for ciphertext and tag symbols that no plaintext byte equals.     *)
(***************************************************************************)
EXTENDS Integers, Sequences, FiniteSets, TLC

VARIABLES
    chunk_size_,    \* ChunkStore::chunk_size_
    chunks_,        \* ChunkStore::chunks_      : hash -> Chunk (in memory)
    content_map_,   \* ChunkStore::content_map_ : content id -> hash list (in memory)
    db_,            \* ChunkStore::db_ : the key/value store on the open path
    db_path,        \* which path the open ChunkStore was constructed on (1, 2, ...)
    fresh,          \* content ids stored by the running ChunkStore instance (observation)
    log,            \* history of completed store calls (observation)
    last,           \* the most recent ChunkStore call and its outcome (observation)
    tampered,       \* hashes whose persisted record was modified outside the store
    aborts,         \* number of store calls left by an exception (observation)
    dag_,           \* node -> Consensus::dag_         : chunk hash -> history
    entry_by_id_,   \* node -> Consensus::entry_by_id_ : entry id -> entry
    clock,          \* node -> the node's wall clock reading
    offered,        \* node -> entries handed to merge_entry so far (observation)
    created,        \* node -> entries created by add_entry, in order (observation)
    lastL,          \* the most recent Consensus call: whether a merge found the id
                    \* indexed, was handed the entry before, and where it inserted
    replication_factor_,  \* Scheduler::replication_factor_
    devices_,       \* Scheduler::devices_ : device id -> Telemetry
    lastP,          \* the most recent Scheduler call and what it returned (observation)
    graph_,         \* Routing::graph_ : device -> (device -> Link)
    chunk_locations_,     \* Routing::chunk_locations_ : chunk hash -> device ids
    lastR,          \* the most recent Routing call and what it returned (observation)
    pending,        \* thread -> the add_entry call it is inside, if any
    runs            \* the orchestration runs completed so far (observation)

csVars == <<chunk_size_, chunks_, content_map_, db_, db_path, fresh, log, last, tampered,
           aborts>>
lgVars == <<dag_, entry_by_id_, clock, offered, created, lastL>>
scVars == <<replication_factor_, devices_, lastP>>
rtVars == <<graph_, chunk_locations_, lastR>>
\* What the ChunkStore and Consensus calls of one thread leave alone.
restVars == <<replication_factor_, devices_, lastP, graph_, chunk_locations_, lastR,
              pending, runs>>
vars == <<chunk_size_, chunks_, content_map_, db_, db_path, fresh, log, last, tampered,
          aborts,
          dag_, entry_by_id_, clock, offered, created, lastL,
          replication_factor_, devices_, lastP, graph_, chunk_locations_, lastR,
          pending, runs>>

(***************************************************************************)
(* Bounds                                                                  *)
(***************************************************************************)
MaxLen == 3
MaxChunkSize == 2
MaxStores == 2

MaxPaths == 2
TamperStores == 1

Byte == {0, 1}
ContentIds == {"c1", "c2"}
\* Outcomes of generate_random(32) (the salt) and generate_random(12) (the iv).
Salts == {0, 1}
Nonces == {0}

\* Payloads up to MaxLen bytes, taken up to renaming of the two byte values.
Payloads == {p \in UNION {[1..n -> Byte] : n \in 0..MaxLen} : p = <<>> \/ p[1] = 0}

(***************************************************************************)
(* Generic helpers                                                         *)
(***************************************************************************)
Put(f, k, v) == [y \in (DOMAIN f) \cup {k} |-> IF y = k THEN v ELSE f[y]]

Min(a, b) == IF a < b THEN a ELSE b

Slice(s, from, n) == [i \in 1..n |-> s[from + i - 1]]

Zeros(n) == [i \in 1..n |-> 0]

RECURSIVE Flatten(_)
Flatten(ss) == IF ss = <<>> THEN <<>> ELSE Head(ss) \o Flatten(Tail(ss))

(***************************************************************************)
(* ChunkStore primitives                                                   *)
(***************************************************************************)
IV_LEN == 12
TAG_LEN == 16
SEMI == -1

\* ZSTD_compress: a frame whose header carries the content size, then the content.
compress(data) == <<Len(data)>> \o data

\* ZSTD_decompress into a zero-initialised vector of original_size bytes; the
\* vector is returned at that size whatever the frame's content size was.
decompress(data, original_size) ==
    IF data = <<>> \/ data[1] # Len(data) - 1
    THEN [ok |-> FALSE, bytes |-> <<>>]
    ELSE IF data[1] > original_size
    THEN [ok |-> FALSE, bytes |-> <<>>]
    ELSE [ok |-> TRUE,
          bytes |-> Tail(data) \o Zeros(original_size - data[1])]

CidCode(content_id) == IF content_id = "c1" THEN 0 ELSE 1

\* PKCS5_PBKDF2_HMAC over (content_id, salt).
derive_key(content_id, salt) == CidCode(content_id) * Cardinality(Salts) + salt

\* generate_random(12) inside aes_gcm_encrypt.
MakeIV(nonce) == [i \in 1..IV_LEN |-> nonce]

At(s, j) == IF j \in DOMAIN s THEN s[j] ELSE 0

\* The GCM tag: every tag byte binds the key, the ciphertext length and the
\* iv and ciphertext symbols at its position.
GcmTag(key, iv, ct) ==
    [j \in 1..TAG_LEN |->
        (((key * (TAG_LEN + 1) + Len(ct)) * 2 + At(iv, j)) * 4096) + At(ct, j) + 4096]

GcmCipher(plaintext, key, iv) ==
    [i \in 1..Len(plaintext) |->
        256 * (1 + key * Cardinality(Nonces) + iv[1]) + plaintext[i]]

aes_gcm_encrypt(plaintext, key, nonce) ==
    LET iv == MakeIV(nonce)
        ct == GcmCipher(plaintext, key, iv)
    IN  [data |-> ct, iv |-> iv, tag |-> GcmTag(key, iv, ct)]

\* EVP_DecryptFinal_ex verifies the tag; a mismatch throws.
aes_gcm_decrypt(ciphertext, key, iv, tag) ==
    IF tag = GcmTag(key, iv, ciphertext)
    THEN [ok |-> TRUE, bytes |-> [i \in 1..Len(ciphertext) |-> ciphertext[i] % 256]]
    ELSE [ok |-> FALSE, bytes |-> <<>>]

\* hex(SHA256(data)): collision free, never empty, never contains ';'.
compute_hash(data) == <<Len(data)>> \o data

ChunkKey(hash) == <<"chunk", hash>>
MapKey(content_id) == <<"content_map", content_id>>

\* persist_chunk's packed record.
SerializeChunk(chunk) ==
    <<chunk.original_size, chunk.index, IF chunk.is_encrypted THEN 1 ELSE 0>>
        \o <<Len(chunk.iv)>> \o chunk.iv
        \o <<Len(chunk.tag)>> \o chunk.tag
        \o <<Len(chunk.data)>> \o chunk.data

persist_chunk(db, hash, chunk) == Put(db, ChunkKey(hash), SerializeChunk(chunk))

\* Mutant: the two leading size_t fields read in the wrong order.
ParseChunk_SwappedFields(value, hash) ==
    LET iv_len == value[4]
        tag_len == value[5 + iv_len]
        data_len == value[6 + iv_len + tag_len]
    IN  [data |-> Slice(value, 7 + iv_len + tag_len, data_len),
         original_size |-> value[2],
         iv |-> Slice(value, 5, iv_len),
         tag |-> Slice(value, 6 + iv_len, tag_len),
         hash |-> hash,
         index |-> value[1],
         is_encrypted |-> value[3] # 0]

\* load_chunk's parse of a packed record found under "chunk:" + hash.
ParseChunk(value, hash) ==
    LET iv_len == value[4]
        iv_off == 4
        tag_len == value[iv_off + iv_len + 1]
        tag_off == iv_off + iv_len + 1
        data_len == value[tag_off + tag_len + 1]
        data_off == tag_off + tag_len + 1
    IN  [data |-> Slice(value, data_off + 1, data_len),
         original_size |-> value[1],
         iv |-> Slice(value, iv_off + 1, iv_len),
         tag |-> Slice(value, tag_off + 1, tag_len),
         hash |-> hash,
         index |-> value[2],
         is_encrypted |-> value[3] # 0]

load_chunk(db, hash) ==
    IF ChunkKey(hash) \in DOMAIN db
    THEN [chunk |-> ParseChunk(db[ChunkKey(hash)], hash), found |-> TRUE]
    ELSE [chunk |-> <<>>, found |-> FALSE]

\* Mutant: the hashes joined with nothing between them.
JoinHashes_Unseparated(hashes) == Flatten([i \in 1..Len(hashes) |-> hashes[i]])

\* The mapping value store writes: every hash followed by ';'.
JoinHashes(hashes) == Flatten([i \in 1..Len(hashes) |-> hashes[i] \o <<SEMI>>])

\* retrieve's getline(ss, hash, ';') loop: tokens between ';', empty ones dropped.
RECURSIVE SplitHashes(_, _, _)
SplitHashes(value, token, acc) ==
    IF value = <<>>
    THEN IF token = <<>> THEN acc ELSE Append(acc, token)
    ELSE IF Head(value) = SEMI
    THEN SplitHashes(Tail(value), <<>>, IF token = <<>> THEN acc ELSE Append(acc, token))
    ELSE SplitHashes(Tail(value), Append(token, Head(value)), acc)

ParseMapping(value) == SplitHashes(value, <<>>, <<>>)

\* Mutant: the encrypt flag is ignored and every chunk body is encrypted.
MakeChunk_AlwaysEncrypts(data, offset, k, encrypt, key, nonce) ==
    LET chunk_len == Min(k, Len(data) - offset)
        enc == aes_gcm_encrypt(compress(Slice(data, offset + 1, chunk_len)), key, nonce)
    IN  [data |-> enc.data,
         original_size |-> chunk_len,
         iv |-> enc.iv,
         tag |-> enc.tag,
         hash |-> compute_hash(enc.data),
         index |-> offset \div k,
         is_encrypted |-> TRUE]

\* Mutant: original_size records chunk_size_ instead of the slice's length.
MakeChunk_FullSize(data, offset, k, encrypt, key, nonce) ==
    LET chunk_len == Min(k, Len(data) - offset)
        compressed == compress(Slice(data, offset + 1, chunk_len))
        enc == aes_gcm_encrypt(compressed, key, nonce)
        body == IF encrypt THEN enc.data ELSE compressed
    IN  [data |-> body,
         original_size |-> k,
         iv |-> IF encrypt THEN enc.iv ELSE <<>>,
         tag |-> IF encrypt THEN enc.tag ELSE <<>>,
         hash |-> compute_hash(body),
         index |-> offset \div k,
         is_encrypted |-> encrypt]

\* The chunk store builds for the slice at offset (the loop body of store).
MakeChunk(data, offset, k, encrypt, key, nonce) ==
    LET chunk_len == Min(k, Len(data) - offset)
        compressed == compress(Slice(data, offset + 1, chunk_len))
        enc == aes_gcm_encrypt(compressed, key, nonce)
        body == IF encrypt THEN enc.data ELSE compressed
    IN  [data |-> body,
         original_size |-> chunk_len,
         iv |-> IF encrypt THEN enc.iv ELSE <<>>,
         tag |-> IF encrypt THEN enc.tag ELSE <<>>,
         hash |-> compute_hash(body),
         index |-> offset \div k,
         is_encrypted |-> encrypt]

\* The for loop of store: offset = 0, k, 2k, ... while offset < data.size().
RECURSIVE StoreLoop(_, _, _, _, _, _, _, _, _)
StoreLoop(data, offset, k, encrypt, key, ivs, chunks, db, hashes) ==
    IF offset >= Len(data)
    THEN [db |-> db, hashes |-> hashes, chunks |-> chunks]
    ELSE LET chunk == MakeChunk(data, offset, k, encrypt, key, ivs[(offset \div k) + 1])
         IN  StoreLoop(data, offset + k, k, encrypt, key, ivs,
                       Put(chunks, chunk.hash, chunk),
                       persist_chunk(db, chunk.hash, chunk),
                       Append(hashes, chunk.hash))

NumChunks(len, k) == (len + k - 1) \div k

\* get_chunk, else load_chunk and cache (the head of retrieve's loop body).
FetchChunk(chunks, db, hash) ==
    IF hash \in DOMAIN chunks
    THEN [chunk |-> chunks[hash], found |-> TRUE, chunks |-> chunks]
    ELSE LET l == load_chunk(db, hash)
         IN  IF l.found
             THEN [chunk |-> l.chunk, found |-> TRUE, chunks |-> Put(chunks, hash, l.chunk)]
             ELSE [chunk |-> <<>>, found |-> FALSE, chunks |-> chunks]

\* A retrieve loop that hands back what it has assembled when a chunk is missing.
RECURSIVE RetrieveLoop_KeepsPrefix(_, _, _, _, _)
RetrieveLoop_KeepsPrefix(hashes, key, chunks, db, result) ==
    IF hashes = <<>>
    THEN [data |-> result, chunks |-> chunks, status |-> "ok"]
    ELSE LET f == FetchChunk(chunks, db, Head(hashes))
         IN  IF ~f.found
             THEN [data |-> result, chunks |-> f.chunks, status |-> "missing_chunk"]
             ELSE LET dec == IF f.chunk.is_encrypted
                             THEN aes_gcm_decrypt(f.chunk.data, key, f.chunk.iv, f.chunk.tag)
                             ELSE [ok |-> TRUE, bytes |-> f.chunk.data]
                  IN  IF ~dec.ok
                      THEN [data |-> <<>>, chunks |-> f.chunks, status |-> "auth_failed"]
                      ELSE LET z == decompress(dec.bytes, f.chunk.original_size)
                           IN  IF ~z.ok
                               THEN [data |-> <<>>, chunks |-> f.chunks,
                                     status |-> "decompress_failed"]
                               ELSE RetrieveLoop_KeepsPrefix(Tail(hashes), key, f.chunks, db,
                                                             result \o z.bytes)

\* The for loop of retrieve over the content's hash list.
RECURSIVE RetrieveLoop(_, _, _, _, _)
RetrieveLoop(hashes, key, chunks, db, result) ==
    IF hashes = <<>>
    THEN [data |-> result, chunks |-> chunks, status |-> "ok"]
    ELSE LET f == FetchChunk(chunks, db, Head(hashes))
         IN  IF ~f.found
             THEN [data |-> <<>>, chunks |-> f.chunks, status |-> "missing_chunk"]
             ELSE LET dec == IF f.chunk.is_encrypted
                             THEN aes_gcm_decrypt(f.chunk.data, key, f.chunk.iv, f.chunk.tag)
                             ELSE [ok |-> TRUE, bytes |-> f.chunk.data]
                  IN  IF ~dec.ok
                      THEN [data |-> <<>>, chunks |-> f.chunks, status |-> "auth_failed"]
                      ELSE LET z == decompress(dec.bytes, f.chunk.original_size)
                           IN  IF ~z.ok
                               THEN [data |-> <<>>, chunks |-> f.chunks,
                                     status |-> "decompress_failed"]
                               ELSE RetrieveLoop(Tail(hashes), key, f.chunks, db,
                                                 result \o z.bytes)

\* retrieve(content_id) with the salt generate_random(32) returned.
RetrieveResult(content_id, salt, chunks, cmap, db) ==
    IF content_id \notin DOMAIN cmap /\ MapKey(content_id) \notin DOMAIN db
    THEN [data |-> <<>>, chunks |-> chunks, status |-> "not_found", cmap |-> cmap]
    ELSE LET cmap2 == IF content_id \in DOMAIN cmap THEN cmap
                      ELSE Put(cmap, content_id, ParseMapping(db[MapKey(content_id)]))
             r == RetrieveLoop(cmap2[content_id], derive_key(content_id, salt),
                               chunks, db, <<>>)
         IN  [data |-> r.data, chunks |-> r.chunks, status |-> r.status, cmap |-> cmap2]

(***************************************************************************)
(* ChunkStore operations                                                   *)
(***************************************************************************)
NoCall == [data |-> <<>>, hashes |-> <<>>, encrypt |-> FALSE, status |-> "", op |-> "none",
           cid |-> "", cold |-> FALSE]

InitChunkStore ==
    /\ chunks_ = <<>>
    /\ content_map_ = <<>>
    /\ db_ = <<>>
    /\ db_path = 1
    /\ fresh = {}
    /\ log = <<>>
    /\ last = NoCall
    /\ tampered = {}
    /\ aborts = 0

\* A store variant that leaves the mapping of a content that has one.
Store_KeepsMapping(data, content_id, encrypt, budget) ==
    /\ Len(log) < budget
    /\ \E salt \in Salts, ivs \in [1..NumChunks(Len(data), chunk_size_) -> Nonces] :
        LET r == StoreLoop(data, 0, chunk_size_, encrypt, derive_key(content_id, salt),
                           ivs, chunks_, db_, <<>>)
        IN  /\ chunks_' = r.chunks
            /\ content_map_' = IF content_id \in DOMAIN content_map_ THEN content_map_
                               ELSE Put(content_map_, content_id, r.hashes)
            /\ db_' = IF MapKey(content_id) \in DOMAIN db_ THEN r.db
                      ELSE Put(r.db, MapKey(content_id), JoinHashes(r.hashes))
            /\ log' = Append(log, [data |-> data, hashes |-> r.hashes, encrypt |-> encrypt,
                                   cid |-> content_id, path |-> db_path])
            /\ last' = [data |-> data, hashes |-> r.hashes, encrypt |-> encrypt,
                        status |-> "ok", op |-> "store", cid |-> content_id,
                        cold |-> FALSE]
    /\ fresh' = fresh \cup {content_id}
    /\ UNCHANGED <<chunk_size_, db_path, tampered, aborts>>
    /\ UNCHANGED <<lgVars, restVars>>

\* ChunkStore::store; budget bounds the number of store calls of a run.
Store(data, content_id, encrypt, budget) ==
    /\ Len(log) < budget
    /\ \E salt \in Salts, ivs \in [1..NumChunks(Len(data), chunk_size_) -> Nonces] :
        LET r == StoreLoop(data, 0, chunk_size_, encrypt, derive_key(content_id, salt),
                           ivs, chunks_, db_, <<>>)
        IN  /\ chunks_' = r.chunks
            /\ content_map_' = Put(content_map_, content_id, r.hashes)
            /\ db_' = Put(r.db, MapKey(content_id), JoinHashes(r.hashes))
            /\ log' = Append(log, [data |-> data, hashes |-> r.hashes, encrypt |-> encrypt,
                                   cid |-> content_id, path |-> db_path])
            /\ last' = [data |-> data, hashes |-> r.hashes, encrypt |-> encrypt,
                        status |-> "ok", op |-> "store", cid |-> content_id,
                        cold |-> FALSE]
    /\ fresh' = fresh \cup {content_id}
    /\ UNCHANGED <<chunk_size_, db_path, tampered, aborts>>
    /\ UNCHANGED <<lgVars, restVars>>

\* ChunkStore::retrieve
Retrieve(content_id) ==
    /\ \E salt \in Salts :
        LET r == RetrieveResult(content_id, salt, chunks_, content_map_, db_)
        IN  /\ chunks_' = r.chunks
            /\ content_map_' = r.cmap
            /\ last' = [data |-> r.data, hashes |-> <<>>, encrypt |-> FALSE,
                        status |-> r.status, op |-> "retrieve", cid |-> content_id,
                        cold |-> content_id \notin DOMAIN content_map_]
    /\ UNCHANGED <<chunk_size_, db_, db_path, fresh, log, tampered, aborts>>
    /\ UNCHANGED <<lgVars, restVars>>

\* A constructor variant that reads the persisted content mappings back.
Reopen_LoadsMappings ==
    /\ last.op \notin {"none", "open"}
    /\ chunks_' = <<>>
    /\ content_map_' = [c \in {c \in ContentIds : MapKey(c) \in DOMAIN db_} |->
                            ParseMapping(db_[MapKey(c)])]
    /\ fresh' = {}
    /\ last' = [NoCall EXCEPT !.op = "open"]
    /\ UNCHANGED <<chunk_size_, db_, db_path, log, tampered, aborts>>
    /\ UNCHANGED <<lgVars, restVars>>

\* ~ChunkStore (flush_to_disk) then ChunkStore(chunk_size, same path): the
\* in-memory tables start empty, the key/value store is what was written.
Reopen ==
    /\ last.op \notin {"none", "open"}
    /\ chunks_' = <<>>
    /\ content_map_' = <<>>
    /\ fresh' = {}
    /\ last' = [NoCall EXCEPT !.op = "open"]
    /\ UNCHANGED <<chunk_size_, db_, db_path, log, tampered, aborts>>
    /\ UNCHANGED <<lgVars, restVars>>

\* ~ChunkStore then ChunkStore(chunk_size, another path): create_if_missing
\* gives an empty key/value store.
OpenNew ==
    /\ db_path < MaxPaths
    /\ last.op = "store"
    /\ chunks_' = <<>>
    /\ content_map_' = <<>>
    /\ db_' = <<>>
    /\ db_path' = db_path + 1
    /\ fresh' = {}
    /\ tampered' = {}
    /\ last' = [NoCall EXCEPT !.op = "open"]
    /\ UNCHANGED <<chunk_size_, log, aborts>>
    /\ UNCHANGED <<lgVars, restVars>>

\* Flip of the least significant bit of one byte.
Flip(x) == IF x % 2 = 0 THEN x + 1 ELSE x - 1

\* The positions of the iv, tag and data bytes inside a packed record.
BodyPositions(value) ==
    LET iv_len == value[4]
        tag_len == value[5 + iv_len]
        data_len == value[6 + iv_len + tag_len]
    IN  (5 .. 4 + iv_len) \cup (6 + iv_len .. 5 + iv_len + tag_len)
            \cup (7 + iv_len + tag_len .. 6 + iv_len + tag_len + data_len)

\* A bit of the iv, tag or data of one persisted chunk record is changed
\* behind the store's back.
Tamper(hash, pos) ==
    /\ tampered = {}
    /\ ChunkKey(hash) \in DOMAIN db_
    /\ db_' = [db_ EXCEPT ![ChunkKey(hash)][pos] = Flip(@)]
    /\ tampered' = {hash}
    /\ last' = [NoCall EXCEPT !.op = "tamper"]
    /\ UNCHANGED <<chunk_size_, chunks_, content_map_, db_path, fresh, log, aborts>>
    /\ UNCHANGED <<lgVars, restVars>>

StoredHashes == {k[2] : k \in {x \in DOMAIN db_ : x[1] = "chunk"}}

Next ==
    \/ \E data \in Payloads, content_id \in ContentIds, encrypt \in BOOLEAN :
          Store(data, content_id, encrypt, MaxStores)
    \/ \E content_id \in ContentIds : Retrieve(content_id)
    \/ Reopen
    \/ OpenNew

NextTamper ==
    \/ \E data \in Payloads, content_id \in ContentIds, encrypt \in BOOLEAN :
          Store(data, content_id, encrypt, TamperStores)
    \/ \E content_id \in ContentIds : Retrieve(content_id)
    \/ Reopen
    \/ \E hash \in StoredHashes :
          \E pos \in BodyPositions(db_[ChunkKey(hash)]) : Tamper(hash, pos)


(***************************************************************************)
(* ChunkStore on a backing store that can fail                             *)
(***************************************************************************)
FaultStores == 1
MaxAborts == 1

\* The for loop of store when db_->Put fails for the chunks whose ordinal is in
\* failed: persist_chunk returns false, store does not look at the result.
RECURSIVE StoreLoopLossy(_, _, _, _, _, _, _, _, _, _)
StoreLoopLossy(data, offset, k, encrypt, key, ivs, chunks, db, hashes, failed) ==
    IF offset >= Len(data)
    THEN [db |-> db, hashes |-> hashes, chunks |-> chunks]
    ELSE LET chunk == MakeChunk(data, offset, k, encrypt, key, ivs[(offset \div k) + 1])
         IN  StoreLoopLossy(data, offset + k, k, encrypt, key, ivs,
                            Put(chunks, chunk.hash, chunk),
                            IF (offset \div k) \in failed
                            THEN db
                            ELSE persist_chunk(db, chunk.hash, chunk),
                            Append(hashes, chunk.hash),
                            failed)

\* ChunkStore::store while the backing store rejects the writes of the chunks
\* in failed and, if map_failed, the write of the content mapping.
StoreLossy(data, content_id, encrypt, failed, map_failed, budget) ==
    /\ Len(log) < budget
    /\ \E salt \in Salts, ivs \in [1..NumChunks(Len(data), chunk_size_) -> Nonces] :
        LET r == StoreLoopLossy(data, 0, chunk_size_, encrypt,
                                derive_key(content_id, salt), ivs, chunks_, db_, <<>>,
                                failed)
        IN  /\ chunks_' = r.chunks
            /\ content_map_' = Put(content_map_, content_id, r.hashes)
            /\ db_' = IF map_failed
                      THEN r.db
                      ELSE Put(r.db, MapKey(content_id), JoinHashes(r.hashes))
            /\ log' = Append(log, [data |-> data, hashes |-> r.hashes, encrypt |-> encrypt,
                                   cid |-> content_id, path |-> db_path])
            /\ last' = [data |-> data, hashes |-> r.hashes, encrypt |-> encrypt,
                        status |-> "ok", op |-> "store", cid |-> content_id,
                        cold |-> FALSE]
    /\ fresh' = fresh \cup {content_id}
    /\ UNCHANGED <<chunk_size_, db_path, tampered, aborts>>
    /\ UNCHANGED <<lgVars, restVars>>

\* A store variant that maps the content to the chunks made before it left.
StoreAbort_MapsPartial(data, content_id, encrypt, done) ==
    /\ aborts < MaxAborts
    /\ aborts' = aborts + 1
    /\ \E salt \in Salts, ivs \in [1..done -> Nonces] :
        LET r == StoreLoop(Slice(data, 1, done * chunk_size_), 0, chunk_size_, encrypt,
                           derive_key(content_id, salt), ivs, chunks_, db_, <<>>)
        IN  /\ chunks_' = r.chunks
            /\ db_' = r.db
            /\ content_map_' = Put(content_map_, content_id, r.hashes)
    /\ last' = [data |-> data, hashes |-> <<>>, encrypt |-> encrypt,
                status |-> "aborted", op |-> "store", cid |-> content_id,
                cold |-> FALSE]
    /\ UNCHANGED <<chunk_size_, db_path, fresh, log, tampered>>
    /\ UNCHANGED <<lgVars, restVars>>

\* ChunkStore::store leaving by an exception (generate_random, derive_key,
\* compress or aes_gcm_encrypt throws) after done chunks went through the loop.
StoreAbort(data, content_id, encrypt, done) ==
    /\ aborts < MaxAborts
    /\ aborts' = aborts + 1
    /\ \E salt \in Salts, ivs \in [1..done -> Nonces] :
        LET r == StoreLoop(Slice(data, 1, done * chunk_size_), 0, chunk_size_, encrypt,
                           derive_key(content_id, salt), ivs, chunks_, db_, <<>>)
        IN  /\ chunks_' = r.chunks
            /\ db_' = r.db
    /\ last' = [data |-> data, hashes |-> <<>>, encrypt |-> encrypt,
                status |-> "aborted", op |-> "store", cid |-> content_id,
                cold |-> FALSE]
    /\ UNCHANGED <<chunk_size_, content_map_, db_path, fresh, log, tampered>>
    /\ UNCHANGED <<lgVars, restVars>>

\* The chunk ordinals at which a store of data can be left by an exception.
AbortPoints(data) == 0..(IF data = <<>> THEN 0 ELSE NumChunks(Len(data), chunk_size_) - 1)

NextFaulty ==
    \/ \E data \in Payloads, content_id \in ContentIds, encrypt \in BOOLEAN :
          \E failed \in SUBSET (0..(NumChunks(Len(data), chunk_size_) - 1)),
             map_failed \in BOOLEAN :
              StoreLossy(data, content_id, encrypt, failed, map_failed, FaultStores)
    \/ \E data \in Payloads, content_id \in ContentIds, encrypt \in BOOLEAN :
          \E done \in AbortPoints(data) : StoreAbort(data, content_id, encrypt, done)
    \/ \E content_id \in ContentIds : Retrieve(content_id)
    \/ Reopen


(***************************************************************************)
(* ChunkStore with callers that hand in chunks of their own                *)
(***************************************************************************)
ChunkStores == 1
MaxOriginalSize == 2

\* Chunks a caller may pass to store_chunk: the unencrypted frame of the one
\* byte 0 with any original_size and index, the hash field being the digest of
\* the data.
CallerChunks ==
    {[data |-> compress(<<0>>),
      original_size |-> n,
      iv |-> <<>>,
      tag |-> <<>>,
      hash |-> compute_hash(compress(<<0>>)),
      index |-> i,
      is_encrypted |-> FALSE] : n \in 0..MaxOriginalSize, i \in 0..1}

\* Keys a caller may pass to store_chunk: the digest of the chunk's data and
\* the digest of other data.
CallerHashes == {compute_hash(compress(<<0>>)), compute_hash(compress(<<1>>))}

\* ChunkStore::store_chunk
StoreChunk(hash, chunk) ==
    /\ chunks_' = Put(chunks_, hash, chunk)
    /\ db_' = persist_chunk(db_, hash, chunk)
    /\ last' = [data |-> <<>>, hashes |-> <<hash>>, encrypt |-> FALSE,
                status |-> "ok", op |-> "store_chunk", cid |-> "",
                cold |-> FALSE]
    /\ UNCHANGED <<chunk_size_, content_map_, db_path, fresh, log, tampered, aborts>>
    /\ UNCHANGED <<lgVars, restVars>>

NextChunks ==
    \/ \E data \in Payloads, content_id \in ContentIds, encrypt \in BOOLEAN :
          Store(data, content_id, encrypt, ChunkStores)
    \/ \E hash \in CallerHashes, chunk \in CallerChunks : StoreChunk(hash, chunk)
    \/ \E content_id \in ContentIds : Retrieve(content_id)


(***************************************************************************)
(* Consensus ledger                                                        *)
(***************************************************************************)
MaxTime == 3
MaxVersion == 2
MaxAdds == 3
MaxMerges == 2
GossipAdds == 1
GossipMerges == 2
GossipTime == 2

\* Strings are sequences of characters, so that concatenation is what it is.
Nodes == {"A", "B"}
\* Chunk hashes local add_entry calls use, and those remote entries are about.
ChunkHashes == {<<"H">>, <<"G">>}
PoolHashes == {<<"H">>}
\* Device lists of the entries about a chunk peers also write to, and the one
\* list used for a chunk only this node writes to.
LocalDevices == {<< <<"d", "1">> >>}
DeviceLists == {<< <<"d", "1">> >>, << <<"d", "2">> >>}

Digit(d) == <<"0", "1", "2", "3", "4", "5", "6", "7", "8", "9">>[d + 1]

RECURSIVE Decimal(_)
Decimal(n) == IF n < 10 THEN <<Digit(n)>> ELSE Decimal(n \div 10) \o <<Digit(n % 10)>>

\* hex(SHA256(chunk_hash + every device id + decimal version)): a collision-free
\* digest of the concatenated string.
generate_entry_id(chunk_hash, device_ids, version) ==
    chunk_hash \o Flatten(device_ids) \o Decimal(version)

HistoryOf(dag, chunk_hash) == IF chunk_hash \in DOMAIN dag THEN dag[chunk_hash] ELSE <<>>

\* Mutant: the version of the latest entry is copied, not incremented.
NewEntry_StaleVersion(history, chunk_hash, device_ids, creator, now) ==
    LET version == IF history # <<>> THEN history[Len(history)].version ELSE 1
        parent_ids == IF history # <<>> THEN <<history[Len(history)].entry_id>> ELSE <<>>
    IN  [chunk_hash |-> chunk_hash,
         device_ids |-> device_ids,
         version |-> version,
         creator |-> creator,
         parent_ids |-> parent_ids,
         entry_id |-> generate_entry_id(chunk_hash, device_ids, version),
         timestamp |-> now]

\* The entry add_entry builds from the chunk's current history.
NewEntry(history, chunk_hash, device_ids, creator, now) ==
    LET version == IF history # <<>> THEN history[Len(history)].version + 1 ELSE 1
        parent_ids == IF history # <<>> THEN <<history[Len(history)].entry_id>> ELSE <<>>
    IN  [chunk_hash |-> chunk_hash,
         device_ids |-> device_ids,
         version |-> version,
         creator |-> creator,
         parent_ids |-> parent_ids,
         entry_id |-> generate_entry_id(chunk_hash, device_ids, version),
         timestamp |-> now]

\* add_entry's effect on (dag_, entry_by_id_).
add_entry(dag, idx, entry) ==
    [dag |-> Put(dag, entry.chunk_hash, Append(HistoryOf(dag, entry.chunk_hash), entry)),
     idx |-> Put(idx, entry.entry_id, entry)]

Partitioned(history, ts) ==
    \A i, j \in DOMAIN history :
        (i < j /\ history[j].timestamp < ts) => history[i].timestamp < ts

\* Mutant: the entry is appended (push_back) whatever its timestamp.
InsertPositions_Append(history, ts) == {Len(history)}

\* std::lower_bound by timestamp: the number of entries before the insertion
\* point.  On a history partitioned by "timestamp < ts" that is the count of
\* entries with a smaller timestamp; otherwise the call's precondition is broken
\* and any position may result.
InsertPositions(history, ts) ==
    IF Partitioned(history, ts)
    THEN {Cardinality({i \in DOMAIN history : history[i].timestamp < ts})}
    ELSE 0..Len(history)

\* An insert variant that writes over the entry at the insertion point.
InsertAt_Overwrites(history, pos, entry) ==
    SubSeq(history, 1, pos) \o <<entry>> \o SubSeq(history, pos + 2, Len(history))

InsertAt(history, pos, entry) ==
    SubSeq(history, 1, pos) \o <<entry>> \o SubSeq(history, pos + 1, Len(history))

\* Mutant: the "already have this entry" check is missing.
merge_entry_NoDedup(dag, idx, entry, pos) ==
    [dag |-> Put(dag, entry.chunk_hash,
                 InsertAt(HistoryOf(dag, entry.chunk_hash), pos, entry)),
     idx |-> Put(idx, entry.entry_id, entry)]

\* A merge_entry variant that lets an incoming entry take the place of the
\* entry indexed under its id.
merge_entry_Overwrites(dag, idx, entry, pos) ==
    IF entry.entry_id \in DOMAIN idx
    THEN [dag |-> Put(dag, entry.chunk_hash,
                      [i \in DOMAIN HistoryOf(dag, entry.chunk_hash) |->
                          IF HistoryOf(dag, entry.chunk_hash)[i].entry_id = entry.entry_id
                          THEN entry
                          ELSE HistoryOf(dag, entry.chunk_hash)[i]]),
          idx |-> Put(idx, entry.entry_id, entry)]
    ELSE [dag |-> Put(dag, entry.chunk_hash,
                      InsertAt(HistoryOf(dag, entry.chunk_hash), pos, entry)),
          idx |-> Put(idx, entry.entry_id, entry)]

\* merge_entry's effect on (dag_, entry_by_id_) when lower_bound returns pos.
merge_entry(dag, idx, entry, pos) ==
    IF entry.entry_id \in DOMAIN idx
    THEN [dag |-> dag, idx |-> idx]
    ELSE [dag |-> Put(dag, entry.chunk_hash,
                      InsertAt(HistoryOf(dag, entry.chunk_hash), pos, entry)),
          idx |-> Put(idx, entry.entry_id, entry)]

get_history(n, chunk_hash) == HistoryOf(dag_[n], chunk_hash)

Nobody == [chunk_hash |-> <<>>, device_ids |-> <<>>, version |-> 0,
           creator |-> "", parent_ids |-> <<>>, entry_id |-> <<>>, timestamp |-> 0]

\* get_latest: the last element of the history, Nobody standing for nullptr.
get_latest(n, chunk_hash) ==
    LET history == get_history(n, chunk_hash)
    IN  IF history # <<>> THEN history[Len(history)] ELSE Nobody

resolve_locations(n, chunk_hash) ==
    IF get_latest(n, chunk_hash) # Nobody THEN get_latest(n, chunk_hash).device_ids ELSE <<>>

\* Character codes of the characters ids are made of (std::string compares bytes).
Ord(c) ==
    ("0" :> 48 @@ "1" :> 49 @@ "2" :> 50 @@ "3" :> 51 @@ "4" :> 52 @@ "5" :> 53 @@
     "6" :> 54 @@ "7" :> 55 @@ "8" :> 56 @@ "9" :> 57 @@ "A" :> 65 @@ "B" :> 66 @@
     "C" :> 67 @@ "D" :> 68 @@ "G" :> 71 @@ "H" :> 72 @@
     "d" :> 100)[c]

\* std::string operator>: lexicographic comparison, a proper prefix being smaller.
RECURSIVE StrGreater(_, _)
StrGreater(a, b) ==
    IF a = <<>> THEN FALSE
    ELSE IF b = <<>> THEN TRUE
    ELSE IF Ord(Head(a)) # Ord(Head(b)) THEN Ord(Head(a)) > Ord(Head(b))
    ELSE StrGreater(Tail(a), Tail(b))

\* Consensus::resolve_conflict.  Entry ids are compared in the order of the
\* strings they digest; the digest only renames them.
resolve_conflict(a, b) ==
    IF a.timestamp > b.timestamp THEN a
    ELSE IF b.timestamp > a.timestamp THEN b
    ELSE IF a.version > b.version THEN a
    ELSE IF b.version > a.version THEN b
    ELSE IF StrGreater(a.entry_id, b.entry_id) THEN a ELSE b

\* Entries a peer that is not one of the modelled nodes may send: built by its
\* own add_entry, hence with the id of their fields, at any time and version.
RemotePool ==
    {[chunk_hash |-> h,
      device_ids |-> d,
      version |-> v,
      creator |-> "R",
      parent_ids |-> IF v = 1 THEN <<>> ELSE <<generate_entry_id(h, d, v - 1)>>,
      entry_id |-> generate_entry_id(h, d, v),
      timestamp |-> t] :
        h \in PoolHashes, d \in DeviceLists, v \in 1..MaxVersion, t \in 1..MaxTime}

Range(s) == {s[i] : i \in DOMAIN s}

InitLedger ==
    /\ dag_ = [n \in Nodes |-> <<>>]
    /\ entry_by_id_ = [n \in Nodes |-> <<>>]
    /\ clock = [n \in Nodes |-> 1]
    /\ offered = [n \in Nodes |-> {}]
    /\ created = [n \in Nodes |-> <<>>]
    /\ lastL = [op |-> "none", pos |-> 0, node |-> "", noop |-> FALSE, again |-> FALSE]

\* Consensus::add_entry on node n, the wall clock reading now.
AddEntry(n, chunk_hash, device_ids, now, budget) ==
    /\ Len(created[n]) < budget
    /\ now >= clock[n]
    /\ LET entry == NewEntry(get_history(n, chunk_hash), chunk_hash, device_ids, n, now)
           r == add_entry(dag_[n], entry_by_id_[n], entry)
       IN  /\ dag_' = [dag_ EXCEPT ![n] = r.dag]
           /\ entry_by_id_' = [entry_by_id_ EXCEPT ![n] = r.idx]
           /\ created' = [created EXCEPT ![n] = Append(@, entry)]
           /\ lastL' = [op |-> "add", pos |-> 0, node |-> n, noop |-> FALSE, again |-> FALSE]
    /\ clock' = [clock EXCEPT ![n] = now]
    /\ UNCHANGED offered
    /\ UNCHANGED <<csVars, restVars>>

\* Consensus::merge_entry on node n.
MergeEntry(n, entry, budget) ==
    /\ entry \in offered[n] \/ Cardinality(offered[n]) < budget
    /\ \E pos \in InsertPositions(get_history(n, entry.chunk_hash), entry.timestamp) :
        LET r == merge_entry(dag_[n], entry_by_id_[n], entry, pos)
        IN  /\ dag_' = [dag_ EXCEPT ![n] = r.dag]
            /\ entry_by_id_' = [entry_by_id_ EXCEPT ![n] = r.idx]
            /\ lastL' = [op |-> "merge", pos |-> pos,
                         node |-> n,
                         noop |-> entry.entry_id \in DOMAIN entry_by_id_[n],
                         again |-> entry \in offered[n]]
    /\ offered' = [offered EXCEPT ![n] = @ \cup {entry}]
    /\ UNCHANGED <<clock, created>>
    /\ UNCHANGED <<csVars, restVars>>

\* One ledger ("A") receiving local add_entry calls and entries from peers.
NextLedger ==
    \/ \E h \in ChunkHashes : \E d \in (IF h \in PoolHashes THEN DeviceLists ELSE LocalDevices), now \in 1..MaxTime :
          AddEntry("A", h, d, now, MaxAdds)
    \/ \E entry \in RemotePool : MergeEntry("A", entry, MaxMerges)

GossipPool == {e \in RemotePool : e.version = 1 /\ e.timestamp <= GossipTime}

\* Two ledgers that create entries and merge each other's and a peer's.
NextGossip ==
    \/ \E n \in Nodes, h \in ChunkHashes, d \in DeviceLists, now \in 1..GossipTime :
          AddEntry(n, h, d, now, GossipAdds)
    \/ \E n \in Nodes :
          \E entry \in GossipPool \cup UNION {Range(created[m]) : m \in Nodes \ {n}} :
              MergeEntry(n, entry, GossipMerges)

\* Threads that call add_entry on one Consensus object at the same time.  The
\* class holds no lock (Consensus.hpp has no mutex member), so the statements of
\* two calls interleave; pending[t] is the entry thread t has built and the
\* statement it will execute next.
Threads == {"t1", "t2"}

\* add_entry up to the computation of the entry id: the timestamp is taken, the
\* chunk's history is read and parent, version and id are derived from its last
\* element.
AddEntryBegin(t, n, chunk_hash, device_ids, now, budget) ==
    /\ t \notin DOMAIN pending
    /\ Len(created[n]) + Cardinality(DOMAIN pending) < budget
    /\ now >= clock[n]
    /\ pending' = Put(pending, t,
                      [entry |-> NewEntry(get_history(n, chunk_hash), chunk_hash,
                                          device_ids, n, now),
                       pc |-> "push_back"])
    /\ clock' = [clock EXCEPT ![n] = now]
    /\ lastL' = [op |-> "add_begin", pos |-> 0, node |-> n, noop |-> FALSE, again |-> FALSE]
    /\ UNCHANGED <<dag_, entry_by_id_, offered, created>>
    /\ UNCHANGED <<csVars, scVars, rtVars, runs>>

\* history.push_back(entry).
AddEntryPush(t, n) ==
    /\ t \in DOMAIN pending
    /\ pending[t].pc = "push_back"
    /\ LET entry == pending[t].entry
       IN  /\ dag_' = [dag_ EXCEPT ![n] = Put(@, entry.chunk_hash,
                                             Append(HistoryOf(@, entry.chunk_hash), entry))]
           /\ pending' = Put(pending, t, [entry |-> entry, pc |-> "index"])
    /\ lastL' = [op |-> "add_push", pos |-> 0, node |-> n, noop |-> FALSE, again |-> FALSE]
    /\ UNCHANGED <<entry_by_id_, clock, offered, created>>
    /\ UNCHANGED <<csVars, scVars, rtVars, runs>>

\* entry_by_id_[entry->entry_id] = entry, and the call returns.
AddEntryIndex(t, n) ==
    /\ t \in DOMAIN pending
    /\ pending[t].pc = "index"
    /\ LET entry == pending[t].entry
       IN  /\ entry_by_id_' = [entry_by_id_ EXCEPT ![n] = Put(@, entry.entry_id, entry)]
           /\ created' = [created EXCEPT ![n] = Append(@, entry)]
    /\ pending' = [u \in DOMAIN pending \ {t} |-> pending[u]]
    /\ lastL' = [op |-> "add", pos |-> 0, node |-> n, noop |-> FALSE, again |-> FALSE]
    /\ UNCHANGED <<dag_, clock, offered>>
    /\ UNCHANGED <<csVars, scVars, rtVars, runs>>

\* Two threads calling add_entry on the ledger of node "A".
NextThreads ==
    \/ \E t \in Threads, h \in ChunkHashes, d \in DeviceLists, now \in 1..MaxTime :
          AddEntryBegin(t, "A", h, d, now, MaxAdds)
    \/ \E t \in Threads : AddEntryPush(t, "A")
    \/ \E t \in Threads : AddEntryIndex(t, "A")

(***************************************************************************)
(* Scheduler                                                               *)
(*                                                                         *)
(* Scores are kept in hundredths of a point (place_shard: thousandths), so *)
(* that the float arithmetic on the telemetry values used here is exact.   *)
(* Percentages are whole numbers, link_quality is in hundredths.           *)
(***************************************************************************)
MaxReplication == 2
MaxStorageMb == 2
MaxHashes == 2

MB == 1048576
STORAGE_CAP == 3000
STORAGE_RATIO_WEIGHT == 500
PLUGGED_STORAGE == 2500
BATTERY_STORAGE == 25
LINK_STORAGE == 25
LOAD_STORAGE == 10
PLUGGED_COMPUTE == 2000
BATTERY_COMPUTE == 20
CPU_COMPUTE == 30
RAM_COMPUTE == 20
IDLE_COMPUTE == 20
LINK_COMPUTE == 10
STORAGE_SHARE == 4
COMPUTE_SHARE == 6

DeviceIds == {<<"d", "1">>, <<"d", "2">>, <<"d", "3">>}

\* Telemetry readings: any free storage up to the bound, plugged in or on an
\* empty battery; a busy CPU, no free RAM, no idle time, no link quality.
Telemetries ==
    [battery_percent : {0},
     cpu_load_percent : {100},
     ram_usage_percent : {100},
     idle_percent : {0},
     link_quality : {0},
     available_storage_mb : 0..MaxStorageMb,
     is_plugged_in : BOOLEAN]

\* Sizes around the megabyte boundaries.
Sizes == {1, MB, MB + 1, MaxStorageMb * MB}

\* Hash lists handed to place_chunks: up to MaxHashes hashes, alternating.
HashLists == {[i \in 1..n |-> IF i % 2 = 1 THEN <<"H">> ELSE <<"G">>] : n \in 0..MaxHashes}

\* ceil(size_bytes / 2^20)
CeilMb(size_bytes) == (size_bytes + MB - 1) \div MB

\* A score_device_for_storage variant that leaves the CPU and RAM load out.
score_device_for_storage_NoLoad(telemetry, data_size_bytes) ==
    LET required_mb == data_size_bytes \div MB
    IN  IF telemetry.available_storage_mb < required_mb THEN 0
        ELSE (IF required_mb = 0 THEN STORAGE_CAP
              ELSE Min(STORAGE_CAP,
                       (telemetry.available_storage_mb * STORAGE_RATIO_WEIGHT) \div required_mb))
             + (IF telemetry.is_plugged_in THEN PLUGGED_STORAGE
                ELSE telemetry.battery_percent * BATTERY_STORAGE)
             + telemetry.link_quality * LINK_STORAGE

\* Scheduler::score_device_for_storage.  required_mb = 0 makes the ratio
\* infinite, or NaN for no free storage, and std::min(30.0f, x) is 30 for both.
score_device_for_storage(telemetry, data_size_bytes) ==
    LET required_mb == data_size_bytes \div MB
    IN  IF telemetry.available_storage_mb < required_mb THEN 0
        ELSE (IF required_mb = 0 THEN STORAGE_CAP
              ELSE Min(STORAGE_CAP,
                       (telemetry.available_storage_mb * STORAGE_RATIO_WEIGHT) \div required_mb))
             + (IF telemetry.is_plugged_in THEN PLUGGED_STORAGE
                ELSE telemetry.battery_percent * BATTERY_STORAGE)
             + telemetry.link_quality * LINK_STORAGE
             + (100 - telemetry.cpu_load_percent) * LOAD_STORAGE
             + (100 - telemetry.ram_usage_percent) * LOAD_STORAGE

\* Telemetry::compute_score
compute_score(telemetry) ==
    (IF telemetry.is_plugged_in THEN PLUGGED_COMPUTE
     ELSE telemetry.battery_percent * BATTERY_COMPUTE)
    + (100 - telemetry.cpu_load_percent) * CPU_COMPUTE
    + (100 - telemetry.ram_usage_percent) * RAM_COMPUTE
    + telemetry.idle_percent * IDLE_COMPUTE
    + telemetry.link_quality * LINK_COMPUTE

score_device_for_compute(telemetry) == compute_score(telemetry)

\* storage_score * 0.4f + compute_score * 0.6f, in thousandths.
ShardScore(telemetry, shard_size_bytes) ==
    STORAGE_SHARE * score_device_for_storage(telemetry, shard_size_bytes)
    + COMPUTE_SHARE * score_device_for_compute(telemetry)

\* The orders in which iterating an unordered_map can visit the keys.
Enumerations(S) ==
    {f \in [1..Cardinality(S) -> S] : \A i, j \in DOMAIN f : f[i] = f[j] => i = j}

\* A select_devices variant that keeps candidates whatever their score.
select_devices_NoFilter(candidates, scores, count) ==
    LET idx == DOMAIN candidates
        n == Min(count, Cardinality(idx))
    IN  {[k \in 1..n |-> candidates[order[k]]] :
            order \in {o \in Enumerations(idx) :
                          \A k \in 1..(Cardinality(idx) - 1) : scores[o[k]] >= scores[o[k + 1]]}}

\* A select_devices variant that takes the candidates in the order they come.
select_devices_Unsorted(candidates, scores, count) ==
    LET idx == {i \in DOMAIN candidates : scores[i] > 0}
        n == Min(count, Cardinality(idx))
    IN  {[k \in 1..n |-> candidates[order[k]]] :
            order \in {o \in Enumerations(idx) :
                          \A k \in 1..(Cardinality(idx) - 1) : o[k] < o[k + 1]}}

\* Scheduler::select_devices: the results std::sort can give, candidates of
\* equal score coming out in any order.
select_devices(candidates, scores, count) ==
    LET idx == {i \in DOMAIN candidates : scores[i] > 0}
        n == Min(count, Cardinality(idx))
    IN  {[k \in 1..n |-> candidates[order[k]]] :
            order \in {o \in Enumerations(idx) :
                          \A k \in 1..(Cardinality(idx) - 1) : scores[o[k]] >= scores[o[k + 1]]}}

RECURSIVE SumOver(_, _)
SumOver(f, seq) == IF seq = <<>> THEN 0 ELSE f[Head(seq)] + SumOver(f, Tail(seq))

\* placement.score: the mean of the chosen devices' scores, 0 for none.
MeanScore(scoreOf, device_ids) ==
    IF device_ids = <<>> THEN 0 ELSE SumOver(scoreOf, device_ids) \div Len(device_ids)

InitScheduler ==
    /\ devices_ = <<>>
    /\ lastP = [op |-> "none", size |-> 0, placements |-> <<>>]

\* Scheduler::register_device
RegisterDevice(device_id, telemetry) ==
    /\ devices_' = Put(devices_, device_id, telemetry)
    /\ lastP' = [op |-> "register_device", size |-> 0, placements |-> <<>>]
    /\ UNCHANGED replication_factor_
    /\ UNCHANGED <<csVars, lgVars, rtVars, pending, runs>>

\* Scheduler::update_telemetry
UpdateTelemetry(device_id, telemetry) ==
    /\ devices_' = Put(devices_, device_id, telemetry)
    /\ lastP' = [op |-> "update_telemetry", size |-> 0, placements |-> <<>>]
    /\ UNCHANGED replication_factor_
    /\ UNCHANGED <<csVars, lgVars, rtVars, pending, runs>>

\* Scheduler::remove_device
RemoveDevice(device_id) ==
    /\ devices_' = [d \in DOMAIN devices_ \ {device_id} |-> devices_[d]]
    /\ lastP' = [op |-> "remove_device", size |-> 0, placements |-> <<>>]
    /\ UNCHANGED replication_factor_
    /\ UNCHANGED <<csVars, lgVars, rtVars, pending, runs>>

\* What place_chunks can return: every hash sees the same map and the same
\* sort, hence the same replicas.
place_chunks(devices, count, chunk_hashes, chunk_size_bytes) ==
    LET scoreOf == [d \in DOMAIN devices |->
                        score_device_for_storage(devices[d], chunk_size_bytes)]
    IN  UNION {
          {[i \in DOMAIN chunk_hashes |->
                [chunk_hash |-> chunk_hashes[i],
                 device_ids |-> selected,
                 score |-> MeanScore(scoreOf, selected)]] :
              selected \in select_devices(candidates,
                                          [i \in DOMAIN candidates |-> scoreOf[candidates[i]]],
                                          count)} :
          candidates \in Enumerations(DOMAIN devices)}

\* What place_shard can return.
place_shard(devices, count, shard_id, shard_size_bytes) ==
    LET scoreOf == [d \in DOMAIN devices |-> ShardScore(devices[d], shard_size_bytes)]
    IN  UNION {
          {[chunk_hash |-> shard_id,
            device_ids |-> selected,
            score |-> MeanScore(scoreOf, selected)] :
              selected \in select_devices(candidates,
                                          [i \in DOMAIN candidates |-> scoreOf[candidates[i]]],
                                          count)} :
          candidates \in Enumerations(DOMAIN devices)}

\* Scheduler::place_chunks
PlaceChunks(chunk_hashes, chunk_size_bytes) ==
    /\ \E placements \in place_chunks(devices_, replication_factor_, chunk_hashes,
                                      chunk_size_bytes) :
          lastP' = [op |-> "place_chunks", size |-> chunk_size_bytes,
                    placements |-> placements]
    /\ UNCHANGED <<replication_factor_, devices_>>
    /\ UNCHANGED <<csVars, lgVars, rtVars, pending, runs>>

\* Scheduler::place_shard
PlaceShard(shard_id, shard_size_bytes) ==
    /\ \E placement \in place_shard(devices_, replication_factor_, shard_id,
                                    shard_size_bytes) :
          lastP' = [op |-> "place_shard", size |-> shard_size_bytes,
                    placements |-> <<placement>>]
    /\ UNCHANGED <<replication_factor_, devices_>>
    /\ UNCHANGED <<csVars, lgVars, rtVars, pending, runs>>

NextScheduler ==
    \/ \E d \in DeviceIds, t \in Telemetries : RegisterDevice(d, t)
    \/ \E d \in DeviceIds, t \in Telemetries : UpdateTelemetry(d, t)
    \/ \E d \in DeviceIds : RemoveDevice(d)
    \/ \E hashes \in HashLists, size \in Sizes : PlaceChunks(hashes, size)
    \/ \E h \in ChunkHashes, size \in Sizes : PlaceShard(h, size)

(***************************************************************************)
(* Scheduler with three devices of unlike power, load and free storage     *)
(***************************************************************************)
\* Telemetry::Telemetry(): a full battery, no load, all idle, a perfect link,
\* 1024 MB free, not plugged in.
DefaultTelemetry ==
    [battery_percent |-> 100,
     cpu_load_percent |-> 0,
     ram_usage_percent |-> 0,
     idle_percent |-> 100,
     link_quality |-> 100,
     available_storage_mb |-> 1024,
     is_plugged_in |-> FALSE]

\* A plugged-in device with 10 GB free and a CPU load of 10%, a device on a
\* 20% battery with 100 MB free, a plugged-in device with 2 GB free.
PluggedLoaded ==
    [DefaultTelemetry EXCEPT !.is_plugged_in = TRUE,
                             !.available_storage_mb = 10 * 1024,
                             !.cpu_load_percent = 10]
LowBattery ==
    [DefaultTelemetry EXCEPT !.battery_percent = 20, !.available_storage_mb = 100]
PluggedIdle ==
    [DefaultTelemetry EXCEPT !.is_plugged_in = TRUE, !.available_storage_mb = 2 * 1024]

Readings == {DefaultTelemetry, PluggedLoaded, LowBattery, PluggedIdle}

\* Chunks of 50 MB.
LargeChunk == 50 * MB

NextReadings ==
    \/ \E d \in DeviceIds, t \in Readings : RegisterDevice(d, t)
    \/ \E hashes \in HashLists : PlaceChunks(hashes, LargeChunk)

(***************************************************************************)
(* Scheduler answering queries, get_compute_devices among them             *)
(***************************************************************************)
QueryDevices == {<<"d", "1">>, <<"d", "2">>}

\* What get_compute_devices can return.
get_compute_devices(devices, count) ==
    LET scoreOf == [d \in DOMAIN devices |-> score_device_for_compute(devices[d])]
    IN  UNION {
          select_devices(candidates,
                         [i \in DOMAIN candidates |-> scoreOf[candidates[i]]],
                         count) :
          candidates \in Enumerations(DOMAIN devices)}

\* Scheduler::get_compute_devices; lastP keeps count as size and the devices
\* returned as the device_ids of one placement.
GetComputeDevices(count) ==
    /\ \E selected \in get_compute_devices(devices_, count) :
          lastP' = [op |-> "get_compute_devices", size |-> count,
                    placements |-> <<[chunk_hash |-> <<>>,
                                      device_ids |-> selected,
                                      score |-> 0]>>]
    /\ UNCHANGED <<replication_factor_, devices_>>
    /\ UNCHANGED <<csVars, lgVars, rtVars, pending, runs>>

NextQueries ==
    \/ \E d \in QueryDevices, t \in Telemetries : RegisterDevice(d, t)
    \/ \E hashes \in HashLists, size \in Sizes : PlaceChunks(hashes, size)
    \/ \E h \in ChunkHashes, size \in Sizes : PlaceShard(h, size)
    \/ \E count \in 1..MaxReplication : GetComputeDevices(count)

(***************************************************************************)
(* Routing                                                                 *)
(***************************************************************************)
(* Quality is kept in thousandths and costs in thousandths of a           *)
(* millisecond, so that the float arithmetic on the values used is exact.  *)
QUALITY_ONE == 1000
QUALITY_WEIGHT == 50
INFINITY == 1000000000

Routers == {"A", "B", "C", "D"}

\* Link measurements handed to add_link: a good fast link, a poor slower one.
LinkKinds ==
    {[quality |-> QUALITY_ONE, latency_ms |-> 10, bandwidth_mbps |-> 100],
     [quality |-> QUALITY_ONE \div 2, latency_ms |-> 15, bandwidth_mbps |-> 50]}

\* The Link a caller builds for the pair (from, to).
MakeLink(from, to, kind) ==
    [quality |-> kind.quality, latency_ms |-> kind.latency_ms, bandwidth_mbps |-> kind.bandwidth_mbps,
     from_device |-> from, to_device |-> to]

\* Qualities handed to update_link.
UpdateQualities == {QUALITY_ONE \div 2}

\* graph_[u] as operator[] gives it: an empty map for a missing key.
LinksOf(graph, u) == IF u \in DOMAIN graph THEN graph[u] ELSE <<>>

\* graph_[u][v] = link
PutLink(graph, u, v, link) == Put(graph, u, Put(LinksOf(graph, u), v, link))

\* Routing::add_link
add_link(graph, from, to, link) ==
    LET reverse == [quality |-> link.quality, latency_ms |-> link.latency_ms, bandwidth_mbps |-> link.bandwidth_mbps,
                    from_device |-> to, to_device |-> from]
    IN  PutLink(PutLink(graph, from, to, link), to, from, reverse)

\* One direction of update_link.
SetQuality(graph, u, v, quality) ==
    IF u \in DOMAIN graph /\ v \in DOMAIN graph[u]
    THEN PutLink(graph, u, v,
                 [quality |-> quality,
                  latency_ms |-> graph[u][v].latency_ms,
                  bandwidth_mbps |-> graph[u][v].bandwidth_mbps,
                  from_device |-> graph[u][v].from_device,
                  to_device |-> graph[u][v].to_device])
    ELSE graph

\* Routing::update_link
update_link(graph, from, to, quality) ==
    SetQuality(SetQuality(graph, from, to, quality), to, from, quality)

\* One direction of remove_link: the key of the outer map stays.
EraseLink(graph, u, v) ==
    IF u \in DOMAIN graph
    THEN Put(graph, u, [w \in DOMAIN graph[u] \ {v} |-> graph[u][w]])
    ELSE graph

\* A remove_link variant that erases one direction only.
remove_link_OneWay(graph, from, to) == EraseLink(graph, from, to)

\* Routing::remove_link
remove_link(graph, from, to) == EraseLink(EraseLink(graph, from, to), to, from)

\* Routing::get_neighbors, as a set (the vector comes in map order).
get_neighbors(graph, device_id) == DOMAIN LinksOf(graph, device_id)

\* Routing::register_chunk_location
register_chunk_location(locations, chunk_hash, device_ids) ==
    Put(locations, chunk_hash, device_ids)

\* Routing::resolve_chunk_locations
resolve_chunk_locations(locations, chunk_hash) ==
    IF chunk_hash \in DOMAIN locations THEN locations[chunk_hash] ELSE <<>>

\* An edge cost that ignores the quality.
EdgeCost_LatencyOnly(link) == link.latency_ms * QUALITY_ONE

\* edge_cost = latency_ms + (1 - quality) * 50
EdgeCost(link) == link.latency_ms * QUALITY_ONE + (QUALITY_ONE - link.quality) * QUALITY_WEIGHT

\* cost[v] as operator[] gives it: 0 for a key that is not in the map.
CostOf(cost, v) == IF v \in DOMAIN cost THEN cost[v] ELSE 0

\* std::greater on (cost, node): the queue yields the smallest pair first.
PairLess(a, b) == a[1] < b[1] \/ (a[1] = b[1] /\ Ord(a[2]) < Ord(b[2]))

Top(pq) == CHOOSE a \in pq : \A b \in pq \ {a} : PairLess(a, b)

\* The neighbours of u whose cost the loop over graph_[u] lowers.
Relaxed(graph, cost, u) ==
    {v \in DOMAIN graph[u] : CostOf(cost, u) + EdgeCost(graph[u][v]) < CostOf(cost, v)}

\* The main loop of Routing::dijkstra.
RECURSIVE DijkstraLoop(_, _, _, _, _)
DijkstraLoop(graph, dest, cost, prev, pq) ==
    IF pq = {} THEN [cost |-> cost, prev |-> prev]
    ELSE LET top == Top(pq)
             rest == pq \ {top}
             curr_cost == top[1]
             u == top[2]
         IN  IF u = dest THEN [cost |-> cost, prev |-> prev]
             ELSE IF curr_cost > CostOf(cost, u) THEN DijkstraLoop(graph, dest, cost, prev, rest)
             ELSE IF u \notin DOMAIN graph THEN DijkstraLoop(graph, dest, cost, prev, rest)
             ELSE LET better == Relaxed(graph, cost, u)
                      new_cost == [v \in better |-> CostOf(cost, u) + EdgeCost(graph[u][v])]
                  IN  DijkstraLoop(
                          graph, dest,
                          [v \in DOMAIN cost \cup better |->
                              IF v \in better THEN new_cost[v] ELSE cost[v]],
                          [v \in DOMAIN prev \cup better |->
                              IF v \in better THEN u ELSE prev[v]],
                          rest \cup {<<new_cost[v], v>> : v \in better})

\* A path reconstruction that has no case for dest = source.
RECURSIVE ReconstructPath_NoSelf(_, _, _, _)
ReconstructPath_NoSelf(prev, source, current, path) ==
    IF current \notin DOMAIN prev THEN <<>>
    ELSE IF prev[current] = source THEN <<source, current>> \o path
    ELSE ReconstructPath_NoSelf(prev, source, prev[current], <<current>> \o path)

\* A walk back along prev that stops short of the source.
RECURSIVE ReconstructPath_DropsSource(_, _, _, _)
ReconstructPath_DropsSource(prev, source, current, path) ==
    IF current = source THEN (IF path = <<>> THEN <<current>> ELSE path)
    ELSE IF current \notin DOMAIN prev THEN <<current>> \o path
    ELSE ReconstructPath_DropsSource(prev, source, prev[current], <<current>> \o path)

\* The walk back along prev: stops at source, or at a node without predecessor
\* (prev[current] is then the empty string).
RECURSIVE ReconstructPath(_, _, _, _)
ReconstructPath(prev, source, current, path) ==
    IF current = source THEN <<current>> \o path
    ELSE IF current \notin DOMAIN prev THEN <<current>> \o path
    ELSE ReconstructPath(prev, source, prev[current], <<current>> \o path)

DefaultRoute ==
    [path |-> <<>>, total_latency_ms |-> 0, min_bandwidth_mbps |-> 0, quality_score |-> 0]

\* A metrics loop that leaves the last edge of the path out.
RECURSIVE RouteMetrics_SkipsLast(_, _, _, _)
RouteMetrics_SkipsLast(graph, path, i, route) ==
    IF i >= Len(path) - 1 THEN route
    ELSE LET link == graph[path[i]][path[i + 1]]
         IN  RouteMetrics_SkipsLast(graph, path, i + 1,
                 [path |-> route.path,
                  total_latency_ms |-> route.total_latency_ms + link.latency_ms,
                  min_bandwidth_mbps |-> Min(route.min_bandwidth_mbps, link.bandwidth_mbps),
                  quality_score |-> (route.quality_score * link.quality) \div QUALITY_ONE])

\* The metrics loop over the edges of the path, from edge i on.
RECURSIVE RouteMetrics(_, _, _, _)
RouteMetrics(graph, path, i, route) ==
    IF i >= Len(path) THEN route
    ELSE LET link == graph[path[i]][path[i + 1]]
         IN  RouteMetrics(graph, path, i + 1,
                 [path |-> route.path,
                  total_latency_ms |-> route.total_latency_ms + link.latency_ms,
                  min_bandwidth_mbps |-> Min(route.min_bandwidth_mbps, link.bandwidth_mbps),
                  quality_score |-> (route.quality_score * link.quality) \div QUALITY_ONE])

\* Routing::dijkstra
dijkstra(graph, source, dest) ==
    LET cost0 == [v \in DOMAIN graph \cup {source} |-> IF v = source THEN 0 ELSE INFINITY]
        end == DijkstraLoop(graph, dest, cost0, <<>>, {<<0, source>>})
    IN  IF dest \in DOMAIN end.prev \/ dest = source
        THEN LET path == ReconstructPath(end.prev, source, dest, <<>>)
             IN  RouteMetrics(graph, path, 1,
                     [path |-> path, total_latency_ms |-> 0,
                      min_bandwidth_mbps |-> INFINITY, quality_score |-> QUALITY_ONE])
        ELSE DefaultRoute

\* Routing::find_route
find_route(graph, source, dest) == dijkstra(graph, source, dest)

InitRouting ==
    /\ graph_ = <<>>
    /\ chunk_locations_ = <<>>
    /\ lastR = [from |-> "", op |-> "none", to |-> "", route |-> DefaultRoute]

\* Routing::add_link
AddLink(from, to, link) ==
    /\ graph_' = add_link(graph_, from, to, link)
    /\ lastR' = [from |-> from, op |-> "add_link", to |-> to, route |-> DefaultRoute]
    /\ UNCHANGED chunk_locations_
    /\ UNCHANGED <<csVars, lgVars, scVars, pending, runs>>

\* Routing::update_link
UpdateLink(from, to, quality) ==
    /\ graph_' = update_link(graph_, from, to, quality)
    /\ lastR' = [from |-> from, op |-> "update_link", to |-> to, route |-> DefaultRoute]
    /\ UNCHANGED chunk_locations_
    /\ UNCHANGED <<csVars, lgVars, scVars, pending, runs>>

\* Routing::remove_link
RemoveLink(from, to) ==
    /\ graph_' = remove_link(graph_, from, to)
    /\ lastR' = [from |-> from, op |-> "remove_link", to |-> to, route |-> DefaultRoute]
    /\ UNCHANGED chunk_locations_
    /\ UNCHANGED <<csVars, lgVars, scVars, pending, runs>>

\* Routing::find_route
FindRoute(source, dest) ==
    /\ lastR' = [from |-> source, op |-> "find_route", to |-> dest,
                 route |-> find_route(graph_, source, dest)]
    /\ UNCHANGED <<graph_, chunk_locations_>>
    /\ UNCHANGED <<csVars, lgVars, scVars, pending, runs>>

\* Links join two different devices.
NextRouting ==
    \/ \E from \in Routers : \E to \in Routers \ {from}, kind \in LinkKinds :
          AddLink(from, to, MakeLink(from, to, kind))
    \/ \E from \in Routers : \E to \in Routers \ {from}, quality \in UpdateQualities :
          UpdateLink(from, to, quality)
    \/ \E from \in Routers : \E to \in Routers \ {from} : RemoveLink(from, to)
    \/ \E source \in Routers, dest \in Routers : FindRoute(source, dest)

(***************************************************************************)
(* Routing called from several threads                                     *)
(*                                                                         *)
(* Routing has no mutex member (Routing.hpp:56-61), so a reader runs       *)
(* between the two map writes of add_link, update_link and remove_link.    *)
(* pending[t] is the call thread t is inside, after its first write.       *)
(***************************************************************************)
Writers == {"t1"}
SharedRouters == {"A", "B", "C"}

\* The first write of add_link: graph_[from][to] = link.
AddLinkForward(t, from, to, link) ==
    /\ t \notin DOMAIN pending
    /\ graph_' = PutLink(graph_, from, to, link)
    /\ pending' = Put(pending, t, [pc |-> "reverse",
                                   call |-> [from |-> from, op |-> "add_link", to |-> to,
                                            link |-> link]])
    /\ lastR' = [from |-> from, op |-> "add_link_forward", to |-> to, route |-> DefaultRoute]
    /\ UNCHANGED chunk_locations_
    /\ UNCHANGED <<csVars, lgVars, scVars, runs>>

\* The first half of update_link: the quality of (from, to), if present.
UpdateLinkForward(t, from, to, quality) ==
    /\ t \notin DOMAIN pending
    /\ graph_' = SetQuality(graph_, from, to, quality)
    /\ pending' = Put(pending, t, [pc |-> "reverse",
                                   call |-> [from |-> from, op |-> "update_link", quality |-> quality,
                                            to |-> to]])
    /\ lastR' = [from |-> from, op |-> "update_link_forward", to |-> to, route |-> DefaultRoute]
    /\ UNCHANGED chunk_locations_
    /\ UNCHANGED <<csVars, lgVars, scVars, runs>>

\* The first half of remove_link: erase (from, to).
RemoveLinkForward(t, from, to) ==
    /\ t \notin DOMAIN pending
    /\ graph_' = EraseLink(graph_, from, to)
    /\ pending' = Put(pending, t, [pc |-> "reverse",
                                   call |-> [from |-> from, op |-> "remove_link", to |-> to]])
    /\ lastR' = [from |-> from, op |-> "remove_link_forward", to |-> to, route |-> DefaultRoute]
    /\ UNCHANGED chunk_locations_
    /\ UNCHANGED <<csVars, lgVars, scVars, runs>>

\* The second write of the call thread t is inside, on (to, from): the
\* reverse of the link handed to add_link, the quality handed to update_link,
\* the erase of remove_link.  The call returns.
WriteReverse(t) ==
    /\ t \in DOMAIN pending
    /\ pending[t].pc = "reverse"
    /\ LET from == pending[t].call.from
           to == pending[t].call.to
       IN  /\ graph_' =
                 CASE pending[t].call.op = "add_link" ->
                        PutLink(graph_, to, from,
                                [quality |-> pending[t].call.link.quality,
                                 latency_ms |-> pending[t].call.link.latency_ms,
                                 bandwidth_mbps |-> pending[t].call.link.bandwidth_mbps,
                                 from_device |-> to, to_device |-> from])
                   [] pending[t].call.op = "update_link" ->
                        SetQuality(graph_, to, from, pending[t].call.quality)
                   [] OTHER -> EraseLink(graph_, to, from)
           /\ lastR' = [from |-> from, op |-> pending[t].call.op, to |-> to,
                        route |-> DefaultRoute]
    /\ pending' = [u \in DOMAIN pending \ {t} |-> pending[u]]
    /\ UNCHANGED chunk_locations_
    /\ UNCHANGED <<csVars, lgVars, scVars, runs>>

\* Routing::get_neighbors, the neighbours coming in the order of the map.
GetNeighbors(device_id) ==
    /\ \E neighbors \in Enumerations(get_neighbors(graph_, device_id)) :
          lastR' = [from |-> device_id, op |-> "get_neighbors", to |-> "",
                    route |-> [path |-> neighbors, total_latency_ms |-> 0,
                               min_bandwidth_mbps |-> 0, quality_score |-> 0]]
    /\ UNCHANGED <<graph_, chunk_locations_>>
    /\ UNCHANGED <<csVars, lgVars, scVars, pending, runs>>

\* One thread writing links, others reading at any moment.
NextShared ==
    \/ \E t \in Writers, from \in SharedRouters :
          \E to \in SharedRouters \ {from}, kind \in LinkKinds :
              AddLinkForward(t, from, to, MakeLink(from, to, kind))
    \/ \E t \in Writers, from \in SharedRouters :
          \E to \in SharedRouters \ {from} : \E quality \in UpdateQualities : UpdateLinkForward(t, from, to, quality)
    \/ \E t \in Writers, from \in SharedRouters :
          \E to \in SharedRouters \ {from} : RemoveLinkForward(t, from, to)
    \/ \E t \in Writers : WriteReverse(t)
    \/ \E device_id \in SharedRouters : GetNeighbors(device_id)
    \/ \E source \in SharedRouters, dest \in SharedRouters : FindRoute(source, dest)

(***************************************************************************)
(* The caller's orchestration                                              *)
(*                                                                         *)
(* store -> place_chunks -> add_entry per hash -> register_chunk_location  *)
(* per hash, on the ChunkStore, Scheduler, Consensus and Routing objects   *)
(* of node "A".                                                            *)
(***************************************************************************)
MaxRuns == 2
OrchTime == 2

\* The devices that register while the orchestration is exercised.
OrchDevices == {<<"d", "1">>, <<"d", "2">>}

\* Devices register with room for every chunk.
RoomyTelemetries == {t \in Telemetries : t.available_storage_mb = MaxStorageMb}

\* The digest as the characters of the hex string compute_hash returns, which
\* is what add_entry concatenates into the entry id.
HashText(hash) == [i \in DOMAIN hash |-> Digit(hash[i])]

\* consensus.add_entry(placement.chunk_hash, placement.device_ids, creator) for
\* every placement in turn.
RECURSIVE RecordLoop(_, _, _, _, _, _, _)
RecordLoop(dag, idx, made, placements, i, creator, now) ==
    IF i > Len(placements)
    THEN [dag |-> dag, idx |-> idx, made |-> made]
    ELSE LET p == placements[i]
             entry == NewEntry(HistoryOf(dag, p.chunk_hash), p.chunk_hash, p.device_ids,
                               creator, now)
             r == add_entry(dag, idx, entry)
         IN  RecordLoop(r.dag, r.idx, Append(made, entry), placements, i + 1, creator, now)

\* routing.register_chunk_location(placement.chunk_hash, placement.device_ids)
\* for every placement in turn.
RECURSIVE RegisterLoop(_, _, _)
RegisterLoop(locations, placements, i) ==
    IF i > Len(placements)
    THEN locations
    ELSE RegisterLoop(register_chunk_location(locations, placements[i].chunk_hash,
                                              placements[i].device_ids),
                      placements, i + 1)

\* The placements a run may get: devices_ and its iteration order are what
\* they were if no device was registered since the previous run, so the same
\* request gets the same answer.
PlacementsNow(chunk_hashes, chunk_size_bytes) ==
    LET all == place_chunks(devices_, replication_factor_, chunk_hashes, chunk_size_bytes)
    IN  IF /\ runs # <<>>
           /\ runs[Len(runs)].devices = devices_
           /\ runs[Len(runs)].chunk_hashes = chunk_hashes
        THEN {runs[Len(runs)].placements}
        ELSE all

\* One run of the orchestration for payload data under content_id, without
\* encryption, every call succeeding.
Orchestrate(n, data, content_id, now) ==
    /\ Len(runs) < MaxRuns
    /\ now >= clock[n]
    /\ \E salt \in Salts, ivs \in [1..NumChunks(Len(data), chunk_size_) -> Nonces] :
        LET s == StoreLoop(data, 0, chunk_size_, FALSE, derive_key(content_id, salt),
                           ivs, chunks_, db_, <<>>)
            chunk_hashes == [i \in DOMAIN s.hashes |-> HashText(s.hashes[i])]
        IN  /\ chunks_' = s.chunks
            /\ content_map_' = Put(content_map_, content_id, s.hashes)
            /\ db_' = Put(s.db, MapKey(content_id), JoinHashes(s.hashes))
            /\ log' = Append(log, [data |-> data, hashes |-> s.hashes, encrypt |-> FALSE,
                                   cid |-> content_id, path |-> db_path])
            /\ last' = [data |-> data, hashes |-> s.hashes, encrypt |-> FALSE,
                        status |-> "ok", op |-> "store", cid |-> content_id,
                        cold |-> FALSE]
            /\ \E placements \in PlacementsNow(chunk_hashes, chunk_size_) :
                LET r == RecordLoop(dag_[n], entry_by_id_[n], created[n], placements, 1,
                                    n, now)
                    locations == RegisterLoop(chunk_locations_, placements, 1)
                IN  /\ lastP' = [op |-> "place_chunks", size |-> chunk_size_,
                                 placements |-> placements]
                    /\ dag_' = [dag_ EXCEPT ![n] = r.dag]
                    /\ entry_by_id_' = [entry_by_id_ EXCEPT ![n] = r.idx]
                    /\ created' = [created EXCEPT ![n] = r.made]
                    /\ chunk_locations_' = locations
                    /\ runs' = Append(runs,
                                      [data |-> data,
                                       cid |-> content_id,
                                       placements |-> placements,
                                       devices |-> devices_,
                                       chunk_hashes |-> chunk_hashes,
                                       after |-> [chunks |-> s.chunks,
                                                  cmap |-> Put(content_map_, content_id,
                                                               s.hashes),
                                                  dag |-> r.dag,
                                                  locations |-> locations]])
    /\ fresh' = fresh \cup {content_id}
    /\ clock' = [clock EXCEPT ![n] = now]
    /\ lastL' = [op |-> "add", pos |-> 0, node |-> n, noop |-> FALSE, again |-> FALSE]
    /\ lastR' = [from |-> "", op |-> "register_chunk_location", to |-> "",
                 route |-> DefaultRoute]
    /\ UNCHANGED <<chunk_size_, db_path, tampered, offered, aborts>>
    /\ UNCHANGED <<replication_factor_, devices_, graph_, pending>>

\* Devices register, and the caller runs the orchestration on node "A".
NextOrch ==
    \/ \E device_id \in OrchDevices, telemetry \in RoomyTelemetries :
          RegisterDevice(device_id, telemetry)
    \/ \E data \in Payloads, content_id \in ContentIds, now \in 1..OrchTime :
          Orchestrate("A", data, content_id, now)

(***************************************************************************)
(* Specifications                                                          *)
(***************************************************************************)
\* No thread is inside a call and no orchestration has run.
InitIdle ==
    /\ pending = <<>>
    /\ runs = <<>>

\* The other components are constructed and receive no call.
InitRest ==
    /\ replication_factor_ = MaxReplication
    /\ InitScheduler
    /\ InitRouting
    /\ InitIdle

\* The ChunkStore is constructed with some chunk_size; the ledgers are idle.
Init == chunk_size_ \in 1..MaxChunkSize /\ InitChunkStore /\ InitLedger /\ InitRest

\* The ledgers run; the ChunkStore is constructed and idle.
InitIdleStore == chunk_size_ = MaxChunkSize /\ InitChunkStore /\ InitLedger /\ InitRest

Spec == Init /\ [][Next]_vars

SpecTamper == Init /\ [][NextTamper]_vars

SpecLedger == InitIdleStore /\ [][NextLedger]_vars

SpecGossip == InitIdleStore /\ [][NextGossip]_vars

\* A Scheduler constructed with some replication factor; the rest is idle.
InitSchedulerRun ==
    /\ chunk_size_ = MaxChunkSize
    /\ InitChunkStore
    /\ InitLedger
    /\ replication_factor_ \in 1..MaxReplication
    /\ InitScheduler
    /\ InitRouting
    /\ InitIdle

SpecScheduler == InitSchedulerRun /\ [][NextScheduler]_vars

SpecReadings == InitSchedulerRun /\ [][NextReadings]_vars

SpecQueries == InitSchedulerRun /\ [][NextQueries]_vars

\* The Routing graph receives calls; the rest is idle.
SpecRouting == InitIdleStore /\ [][NextRouting]_vars

SpecThreads == InitIdleStore /\ [][NextThreads]_vars

SpecOrch == InitIdleStore /\ [][NextOrch]_vars

SpecShared == InitIdleStore /\ [][NextShared]_vars

SpecFaulty == InitIdleStore /\ [][NextFaulty]_vars

SpecChunks == InitIdleStore /\ [][NextChunks]_vars

(***************************************************************************)
(* Properties                                                              *)
(***************************************************************************)
Max(S) == CHOOSE x \in S : \A y \in S : y <= x

\* The index in log of the latest store of content_id on the open path, 0 if none.
LastStoreOf(content_id) ==
    LET S == {i \in DOMAIN log : log[i].cid = content_id /\ log[i].path = db_path}
    IN  IF S = {} THEN 0 ELSE Max(S)

\* C1: a retrieve of a content whose latest store on this path was unencrypted
\* returns exactly the stored payload, from the instance that stored it and from
\* one reopened on the same path.
C1_RoundTripUnencrypted ==
    last.op = "retrieve" =>
        LET i == LastStoreOf(last.cid)
        IN  (i # 0 /\ ~log[i].encrypt) =>
                (last.status = "ok" /\ last.data = log[i].data)

C1_Witness ==
    /\ last.op = "retrieve"
    /\ last.cold
    /\ LastStoreOf(last.cid) # 0
    /\ ~log[LastStoreOf(last.cid)].encrypt
    /\ Len(log[LastStoreOf(last.cid)].data) > chunk_size_
    /\ last.status = "ok"
    /\ last.data = log[LastStoreOf(last.cid)].data

\* C2: a retrieve by the instance that stored the content encrypted returns
\* exactly the stored payload.
C2_EncryptedRoundTrip ==
    (last.op = "retrieve" /\ last.cid \in fresh) =>
        LET i == LastStoreOf(last.cid)
        IN  (i # 0 /\ log[i].encrypt) =>
                (last.status = "ok" /\ last.data = log[i].data)

\* C3: two unencrypted stores of the same payload under the same content id
\* return the same ordered hash list, on one store or on two.
C3_DeterministicHashes ==
    \A i, j \in DOMAIN log :
        (/\ log[i].data = log[j].data
         /\ log[i].cid = log[j].cid
         /\ ~log[i].encrypt
         /\ ~log[j].encrypt) => log[i].hashes = log[j].hashes

C3_Witness ==
    \E i, j \in DOMAIN log :
        /\ i < j
        /\ log[i].path # log[j].path
        /\ log[i].data = log[j].data
        /\ log[i].cid = log[j].cid
        /\ ~log[i].encrypt
        /\ ~log[j].encrypt
        /\ Len(log[j].hashes) >= 2
        /\ log[i].hashes = log[j].hashes

\* C4: store returns ceil(L / k) hashes; every chunk but the last has
\* original_size k and the last has L mod k, or k when k divides L.
C4_ChunkBoundaries ==
    last.op = "store" =>
        LET L == Len(last.data)
            k == chunk_size_
            n == Len(last.hashes)
        IN  /\ n = (L + k - 1) \div k
            /\ \A i \in 1..n :
                  /\ last.hashes[i] \in DOMAIN chunks_
                  /\ chunks_[last.hashes[i]].original_size =
                        IF i < n THEN k ELSE IF L % k = 0 THEN k ELSE L % k

C4_Witness ==
    /\ last.op = "store"
    /\ Len(last.data) > chunk_size_
    /\ Len(last.data) % chunk_size_ # 0
    /\ Len(last.hashes) = 2
    /\ chunks_[last.hashes[1]].original_size = chunk_size_
    /\ chunks_[last.hashes[2]].original_size = Len(last.data) % chunk_size_

\* C5: once a bit of the data, iv or tag of a persisted chunk record of a
\* content was changed, a retrieve of that content fails with an integrity
\* failure; stated for the claim's case of a store reopened after the change,
\* which holds no chunk in memory and reads the changed record.
C5_TamperDetected ==
    (/\ last.op = "retrieve"
     /\ last.cold
     /\ last.status # "not_found"
     /\ \E i \in DOMAIN content_map_[last.cid] : content_map_[last.cid][i] \in tampered)
        => last.status \in {"auth_failed", "decompress_failed"}

Sorted(history) ==
    \A i \in 1..(Len(history) - 1) : history[i].timestamp <= history[i + 1].timestamp

DistinctIds(entries) ==
    \A a, b \in entries : a.entry_id = b.entry_id => a = b

\* C6: merging an entry a second time leaves histories and index as the first
\* merge left them, and merging an entry whose id is indexed changes nothing.
C6_MergeIdempotent ==
    \A n \in Nodes, e \in RemotePool :
        \A p1 \in InsertPositions(get_history(n, e.chunk_hash), e.timestamp) :
            LET s1 == merge_entry(dag_[n], entry_by_id_[n], e, p1)
            IN  /\ e.entry_id \in DOMAIN entry_by_id_[n] =>
                      s1 = [dag |-> dag_[n], idx |-> entry_by_id_[n]]
                /\ \A p2 \in InsertPositions(HistoryOf(s1.dag, e.chunk_hash), e.timestamp) :
                      merge_entry(s1.dag, s1.idx, e, p2) = s1

C6_Witness ==
    /\ lastL.op = "merge"
    /\ lastL.noop
    /\ lastL.again
    /\ \E h \in PoolHashes :
          /\ Len(get_history("A", h)) >= 2
          /\ offered["A"] \subseteq Range(get_history("A", h))

\* C7: on a ledger that only received add_entry calls, the history of a chunk
\* holds one entry per call, with versions 1..N in order, the first without a
\* parent and every later one with the entry before it as its single parent.
C7_LocalMonotonic ==
    \A n \in Nodes : offered[n] = {} =>
        \A h \in ChunkHashes :
            LET history == get_history(n, h)
                N == Cardinality({i \in DOMAIN created[n] : created[n][i].chunk_hash = h})
            IN  /\ Len(history) = N
                /\ \A i \in 1..Len(history) :
                      /\ history[i].version = i
                      /\ history[i].parent_ids =
                            IF i = 1 THEN <<>> ELSE <<history[i - 1].entry_id>>

C7_Witness ==
    /\ offered["A"] = {}
    /\ \E h \in ChunkHashes :
          /\ Len(get_history("A", h)) >= 3
          /\ get_latest("A", h).version = Len(get_history("A", h))

\* C8: a ledger that only merged entries holds, per chunk, all the entries it
\* was handed (their ids being distinct) in non-decreasing timestamp order; and
\* a ledger that created one entry and then merged one other entry of the same
\* chunk with another id and another timestamp holds the two in timestamp
\* order, get_latest being the later one.
C8_MergeOrdering ==
    \A n \in Nodes, h \in ChunkHashes :
        LET history == get_history(n, h)
            handed == {e \in offered[n] : e.chunk_hash = h}
        IN  /\ created[n] = <<>> =>
                  /\ Sorted(history)
                  /\ DistinctIds(offered[n]) =>
                        (Range(history) = handed /\ Len(history) = Cardinality(handed))
            /\ \A e2 \in handed :
                  (/\ Len(created[n]) = 1
                   /\ offered[n] = {e2}
                   /\ created[n][1].chunk_hash = h
                   /\ created[n][1].parent_ids = <<>>
                   /\ created[n][1].entry_id # e2.entry_id
                   /\ created[n][1].timestamp # e2.timestamp) =>
                        LET e1 == created[n][1]
                        IN  IF e1.timestamp < e2.timestamp
                            THEN history = <<e1, e2>> /\ get_latest(n, h) = e2
                            ELSE history = <<e2, e1>> /\ get_latest(n, h) = e1

C8_Witness ==
    /\ created["A"] = <<>>
    /\ DistinctIds(offered["A"])
    /\ lastL.op = "merge"
    /\ ~lastL.noop
    /\ lastL.pos = 0
    /\ \E h \in PoolHashes :
          LET history == get_history("A", h)
          IN  /\ Len(history) = 2
              /\ Range(history) = offered["A"]
              /\ history[1].timestamp < history[2].timestamp

\* C9: after any add_entry and merge_entry calls every history is in
\* non-decreasing timestamp order and get_latest has the largest timestamp.
C9_HistorySorted ==
    \A n \in Nodes, h \in ChunkHashes :
        LET history == get_history(n, h)
        IN  /\ Sorted(history)
            /\ \A i \in DOMAIN history :
                  history[i].timestamp <= get_latest(n, h).timestamp

\* C10: two ledgers that merged the same set of entries (with distinct ids)
\* hold the same histories, hence the same get_latest and resolve_locations.
C10_Convergence ==
    (/\ created["A"] = <<>>
     /\ created["B"] = <<>>
     /\ offered["A"] = offered["B"]
     /\ DistinctIds(offered["A"])) =>
        /\ dag_["A"] = dag_["B"]
        /\ \A h \in ChunkHashes : resolve_locations("A", h) = resolve_locations("B", h)

\* The entries the two ledgers hold or can be handed.
KnownEntries ==
    GossipPool \cup UNION {Range(get_history(n, h)) : n \in Nodes, h \in ChunkHashes}

\* C11: resolve_conflict returns one of its arguments, the one with the greater
\* timestamp, then version, then entry id, and returns the same entry whichever
\* way round the two are passed.
C11_ResolveSymmetric ==
    \A a, b \in KnownEntries :
        LET r == resolve_conflict(a, b)
        IN  /\ r \in {a, b}
            /\ a.timestamp # b.timestamp =>
                  r.timestamp = IF a.timestamp > b.timestamp THEN a.timestamp ELSE b.timestamp
            /\ (a.timestamp = b.timestamp /\ a.version # b.version) =>
                  r.version = IF a.version > b.version THEN a.version ELSE b.version
            /\ r = resolve_conflict(b, a)

\* The entries node n created for chunk_hash, in creation order.
LocalEntries(n, chunk_hash) ==
    LET About(e) == e.chunk_hash = chunk_hash
    IN  SelectSeq(created[n], About)

\* C12: every entry add_entry created for a chunk, merges in between or not,
\* has as its single parent the entry created locally just before it for that
\* chunk (none for the first) and that parent's version plus one, so local
\* versions are at least 1 and strictly increasing.
C12_LocalParentChain ==
    \A n \in Nodes, h \in ChunkHashes :
        LET loc == LocalEntries(n, h)
        IN  \A i \in 1..Len(loc) :
                /\ loc[i].version >= 1
                /\ IF i = 1
                   THEN loc[i].parent_ids = <<>>
                   ELSE /\ loc[i].parent_ids = <<loc[i - 1].entry_id>>
                        /\ loc[i].version = loc[i - 1].version + 1

\* The devices a placement names.
PlacedDevices(placement) == Range(placement.device_ids)

\* C13: no placement place_chunks returns names a device whose free storage
\* is below ceil(size / 2^20) megabytes.
C13_ChunkCapacityGate ==
    lastP.op = "place_chunks" =>
        \A i \in DOMAIN lastP.placements, d \in DOMAIN devices_ :
            devices_[d].available_storage_mb < CeilMb(lastP.size) =>
                d \notin PlacedDevices(lastP.placements[i])

\* C14: the placement place_shard returns names no device whose free storage
\* is below ceil(size / 2^20) megabytes, whatever its compute score.
C14_ShardCapacityGate ==
    lastP.op = "place_shard" =>
        \A d \in DOMAIN devices_ :
            devices_[d].available_storage_mb < CeilMb(lastP.size) =>
                d \notin PlacedDevices(lastP.placements[1])

\* The score the last placement call gave device d.
LastScore(d) ==
    IF lastP.op = "place_shard" THEN ShardScore(devices_[d], lastP.size)
    ELSE score_device_for_storage(devices_[d], lastP.size)

\* C15: every placement returned names distinct devices, as many as the
\* smaller of the replication factor and the number of registered devices with
\* a non-zero score; with no such device it names none and has score 0.
C15_PlacementCardinality ==
    lastP.op \in {"place_chunks", "place_shard"} =>
        LET viable == {d \in DOMAIN devices_ : LastScore(d) # 0}
        IN  \A i \in DOMAIN lastP.placements :
                LET ids == lastP.placements[i].device_ids
                IN  /\ Cardinality(Range(ids)) = Len(ids)
                    /\ Len(ids) = Min(replication_factor_, Cardinality(viable))
                    /\ viable = {} => (ids = <<>> /\ lastP.placements[i].score = 0)

C15_Witness ==
    /\ lastP.op = "place_chunks"
    /\ Len(lastP.placements) = 2
    /\ Len(lastP.placements[2].device_ids) = replication_factor_
    /\ Cardinality(DOMAIN devices_) = 3
    /\ Cardinality({d \in DOMAIN devices_ : LastScore(d) # 0}) = 2
    /\ replication_factor_ = 2

\* C16: the graph is symmetric after any add_link, update_link and remove_link
\* calls: (u, v) is present exactly when (v, u) is, with the same quality,
\* latency and bandwidth; after add_link(u, v) each is a neighbour of the
\* other and after remove_link(u, v) neither is.
C16_Bidirectional ==
    /\ \A u, v \in Routers :
          v \in get_neighbors(graph_, u) =>
              /\ u \in get_neighbors(graph_, v)
              /\ graph_[u][v].quality = graph_[v][u].quality
              /\ graph_[u][v].latency_ms = graph_[v][u].latency_ms
              /\ graph_[u][v].bandwidth_mbps = graph_[v][u].bandwidth_mbps
    /\ lastR.op = "add_link" =>
          /\ lastR.to \in get_neighbors(graph_, lastR.from)
          /\ lastR.from \in get_neighbors(graph_, lastR.to)
    /\ lastR.op = "remove_link" =>
          /\ lastR.to \notin get_neighbors(graph_, lastR.from)
          /\ lastR.from \notin get_neighbors(graph_, lastR.to)

C16_Witness ==
    /\ lastR.op = "remove_link"
    /\ lastR.from \in DOMAIN graph_
    /\ lastR.to \in DOMAIN graph_
    /\ \E u, v \in Routers :
          /\ v \in get_neighbors(graph_, u)
          /\ graph_[u][v].quality # QUALITY_ONE
          /\ graph_[u][v].latency_ms = 10

\* The chains of present links from source to dest that visit no device twice.
SimplePaths(source, dest) ==
    {p \in UNION {[1..n -> Routers] : n \in 1..Cardinality(Routers)} :
        /\ p[1] = source
        /\ p[Len(p)] = dest
        /\ \A i, j \in DOMAIN p : p[i] = p[j] => i = j
        /\ \A i \in 1..(Len(p) - 1) : p[i + 1] \in get_neighbors(graph_, p[i])}

\* The cost of a chain: latency_ms + 50 * (1 - quality) summed over its edges,
\* in thousandths.
RECURSIVE ChainCost(_, _)
ChainCost(p, i) ==
    IF i >= Len(p) THEN 0
    ELSE LET link == graph_[p[i]][p[i + 1]]
         IN  1000 * link.latency_ms + 50 * (1000 - link.quality) + ChainCost(p, i + 1)

\* C17: when some chain of links joins source and dest, find_route returns such
\* a chain from source to dest whose cost is the least of all.
C17_ShortestPath ==
    (lastR.op = "find_route" /\ SimplePaths(lastR.from, lastR.to) # {}) =>
        /\ lastR.route.path \in SimplePaths(lastR.from, lastR.to)
        /\ \A p \in SimplePaths(lastR.from, lastR.to) :
              ChainCost(lastR.route.path, 1) <= ChainCost(p, 1)

\* The example: A-B and B-C good (quality 1, 10 ms), A-C poor (quality 0.5, 15 ms).
C17_Witness ==
    /\ lastR.op = "find_route"
    /\ lastR.from = "A"
    /\ lastR.to = "C"
    /\ "C" \in get_neighbors(graph_, "A")
    /\ graph_["A"]["C"].quality = 500
    /\ graph_["A"]["C"].latency_ms = 15
    /\ lastR.route.path = <<"A", "B", "C">>
    /\ lastR.route.total_latency_ms = 20
    /\ lastR.route.quality_score = 1000

\* C18: find_route(s, s) is [s]; for different devices the path is empty, with
\* the default metrics, exactly when no chain of present links joins them.
C18_Unreachable ==
    lastR.op = "find_route" =>
        IF lastR.from = lastR.to
        THEN lastR.route.path = <<lastR.from>>
        ELSE /\ lastR.route.path = <<>> <=> SimplePaths(lastR.from, lastR.to) = {}
             /\ lastR.route.path = <<>> => lastR.route = DefaultRoute

\* An empty route between two devices that both had links, now removed.
C18_Witness ==
    /\ lastR.op = "find_route"
    /\ lastR.from # lastR.to
    /\ lastR.route = DefaultRoute
    /\ lastR.from \in DOMAIN graph_
    /\ get_neighbors(graph_, lastR.from) = {}
    /\ lastR.to \in DOMAIN graph_
    /\ get_neighbors(graph_, lastR.to) # {}

\* C19: concurrent add_entry calls leave the ledger as some one-at-a-time
\* execution of them would: once every call has returned, the entries of each
\* chunk's history carry the versions 1, 2, ... in order, each has its
\* predecessor as parent, and each is the entry the index holds under its id.
C19_SerialAddEntry ==
    pending = <<>> =>
        \A h \in ChunkHashes :
            LET history == get_history("A", h)
            IN  \A i \in DOMAIN history :
                    /\ history[i].version = i
                    /\ i > 1 => history[i].parent_ids = <<history[i - 1].entry_id>>
                    /\ history[i].entry_id \in DOMAIN entry_by_id_["A"]
                    /\ entry_by_id_["A"][history[i].entry_id] = history[i]

\* C20: a run of the orchestration that repeats the previous run (same payload
\* and content id, same devices) leaves the chunk table, the content mapping,
\* every ledger history and the routing chunk index as the previous run left
\* them.
C20_RetryIdempotent ==
    \A i \in 2..Len(runs) :
        (/\ runs[i].data = runs[i - 1].data
         /\ runs[i].cid = runs[i - 1].cid
         /\ runs[i].devices = runs[i - 1].devices) =>
            runs[i].after = runs[i - 1].after

\* C21: a store that returned its hash list has persisted every chunk it
\* names and the content mapping: the backing store holds a record for each
\* returned hash and the joined hash list under the content id.
C21_StorePersisted ==
    (last.op = "store" /\ last.status = "ok") =>
        /\ \A i \in DOMAIN last.hashes : ChunkKey(last.hashes[i]) \in DOMAIN db_
        /\ MapKey(last.cid) \in DOMAIN db_
        /\ db_[MapKey(last.cid)] = JoinHashes(last.hashes)

\* The positions of content_id's mapping whose hash is neither in the chunk
\* table nor in the backing store.
MissingAt(content_id) ==
    {i \in DOMAIN content_map_[content_id] :
        /\ content_map_[content_id][i] \notin DOMAIN chunks_
        /\ ChunkKey(content_map_[content_id][i]) \notin DOMAIN db_}

\* Every chunk of the mapping before position i is held unencrypted.
PlainBefore(content_id, i) ==
    \A j \in 1..(i - 1) :
        LET f == FetchChunk(chunks_, db_, content_map_[content_id][j])
        IN  f.found /\ ~f.chunk.is_encrypted

FrameOf(chunk) ==
    IF chunk.is_encrypted
    THEN [i \in 1..Len(chunk.data) |-> chunk.data[i] % 256]
    ELSE chunk.data

\* The chunk's frame holds a number of bytes other than chunk.original_size.
SizeMismatch(chunk) ==
    FrameOf(chunk) = <<>> \/ FrameOf(chunk)[1] # chunk.original_size

\* C23: a retrieve that meets a chunk whose body decompresses to a number of
\* bytes other than its original_size does not return a payload.
C23_SizeMismatchFails ==
    (/\ last.op = "retrieve"
     /\ last.cid \in DOMAIN content_map_
     /\ \E i \in DOMAIN content_map_[last.cid] :
           /\ content_map_[last.cid][i] \in DOMAIN chunks_
           /\ SizeMismatch(chunks_[content_map_[last.cid][i]]))
        => last.status # "ok"

\* C24: every chunk in the chunk table is filed under its own hash, which is
\* the digest of its data, and an encrypted chunk has a 12-byte iv and a
\* 16-byte tag.
C24_ChunkTableSound ==
    \A h \in DOMAIN chunks_ :
        /\ chunks_[h].hash = h
        /\ h = compute_hash(chunks_[h].data)
        /\ chunks_[h].is_encrypted =>
              (Len(chunks_[h].iv) = IV_LEN /\ Len(chunks_[h].tag) = TAG_LEN)


\* The three devices registered with the readings above.
ThreeDevices ==
    /\ DOMAIN devices_ = DeviceIds
    /\ devices_[<<"d", "1">>] = PluggedLoaded
    /\ devices_[<<"d", "2">>] = LowBattery
    /\ devices_[<<"d", "3">>] = PluggedIdle

PlacedLarge ==
    /\ ThreeDevices
    /\ replication_factor_ = 2
    /\ lastP.op = "place_chunks"
    /\ lastP.size = LargeChunk

\* C25 (as stated): with replication factor 2 and a 50 MB chunk, d1 plugged
\* in with 10 GB free and 10% CPU load, d2 on a 20% battery with 100 MB free,
\* d3 plugged in with 2 GB free, place_chunks returns the devices [d1, d3].
C25_PlacesD1First ==
    PlacedLarge =>
        \A i \in DOMAIN lastP.placements :
            lastP.placements[i].device_ids = << <<"d", "1">>, <<"d", "3">> >>

\* C25 (amended): in that scenario place_chunks returns the devices [d3, d1]:
\* d3 scores 100, d1 scores 99 for its CPU load, d2 scores 60.
C25_PlacesD3First ==
    PlacedLarge =>
        /\ LastScore(<<"d", "1">>) = 9900
        /\ LastScore(<<"d", "2">>) = 6000
        /\ LastScore(<<"d", "3">>) = 10000
        /\ \A i \in DOMAIN lastP.placements :
              lastP.placements[i].device_ids = << <<"d", "3">>, <<"d", "1">> >>

C25_Witness ==
    /\ PlacedLarge
    /\ Len(lastP.placements) = 1
    /\ lastP.placements[1].device_ids = << <<"d", "3">>, <<"d", "1">> >>


\* The content mappings, in memory and in the backing store.
Mappings(cmap, db) ==
    [c \in ContentIds |->
        <<IF c \in DOMAIN cmap THEN <<cmap[c]>> ELSE <<>>,
          IF MapKey(c) \in DOMAIN db THEN <<db[MapKey(c)]>> ELSE <<>> >>]

\* This step is a store leaving by an exception.
AbortedNow == aborts' # aborts /\ last'.op = "store" /\ last'.status = "aborted"

\* This step is a retrieve of the content whose store just left by an exception.
RetrieveAfterAbort ==
    /\ last.op = "store" /\ last.status = "aborted"
    /\ last'.op = "retrieve" /\ last'.cid = last.cid

\* An aborted store leaves every content mapping as it was and only adds
\* records, all of them chunk records.
AbortKeepsMappings ==
    AbortedNow =>
        /\ Mappings(content_map_', db_') = Mappings(content_map_, db_)
        /\ DOMAIN chunks_ \subseteq DOMAIN chunks_'
        /\ DOMAIN db_ \subseteq DOMAIN db_'
        /\ \A k \in DOMAIN db_' \ DOMAIN db_ : k[1] = "chunk"

C27_ChunksImmutable ==
    [][\A h \in DOMAIN chunks_ \cap DOMAIN chunks_' :
          /\ chunks_'[h].data = chunks_[h].data
          /\ chunks_'[h].iv = chunks_[h].iv
          /\ chunks_'[h].tag = chunks_[h].tag
          /\ chunks_'[h].original_size = chunks_[h].original_size
          /\ chunks_'[h].index = chunks_[h].index
          /\ chunks_'[h].is_encrypted = chunks_[h].is_encrypted]_vars


\* C28: after an unencrypted store has returned its hash list, the chunk
\* get_chunk gives for the hash at position i has index i, counting from 0.
C28_IndexIsPosition ==
    (last.op = "store" /\ last.status = "ok" /\ ~last.encrypt) =>
        \A i \in DOMAIN last.hashes :
            /\ last.hashes[i] \in DOMAIN chunks_
            /\ chunks_[last.hashes[i]].index = i - 1


\* The entries of a occur in b, equal field by field and in the same order.
RECURSIVE KeptIn(_, _)
KeptIn(a, b) ==
    IF a = <<>> THEN TRUE
    ELSE IF b = <<>> THEN FALSE
    ELSE IF Head(a) = Head(b) THEN KeptIn(Tail(a), Tail(b))
    ELSE KeptIn(a, Tail(b))

\* C29: every step keeps each entry of each history, with its fields, and
\* keeps the order in which the entries already there follow each other.
C29_HistoryAppendOnly ==
    [][\A n \in Nodes, h \in ChunkHashes :
          KeptIn(HistoryOf(dag_[n], h), HistoryOf(dag_'[n], h))]_vars

\* A merge has put an entry between two entries of a history of three or more.
C29_Witness ==
    /\ lastL.op = "merge" /\ ~lastL.noop
    /\ \E h \in ChunkHashes :
          /\ DOMAIN dag_[lastL.node] = {h}
          /\ Len(get_history(lastL.node, h)) >= 3
          /\ lastL.pos >= 1
          /\ lastL.pos <= Len(get_history(lastL.node, h)) - 2


\* C30: every placement place_chunks returns lists its devices by storage
\* score, highest first, and no registered device left out has a higher
\* storage score than a device listed.
C30_BestDevicesFirst ==
    lastP.op = "place_chunks" =>
        \A i \in DOMAIN lastP.placements :
            LET ids == lastP.placements[i].device_ids
            IN  /\ \A k \in 1..(Len(ids) - 1) : LastScore(ids[k]) >= LastScore(ids[k + 1])
                /\ \A c \in Range(ids), d \in DOMAIN devices_ \ Range(ids) :
                      LastScore(c) >= LastScore(d)

\* Two of three devices of unlike positive scores were placed.
C30_Witness ==
    /\ lastP.op = "place_chunks"
    /\ lastP.placements # <<>>
    /\ Len(lastP.placements[1].device_ids) = 2
    /\ DOMAIN devices_ = DeviceIds
    /\ \A c, d \in DeviceIds : c # d => LastScore(c) # LastScore(d)
    /\ \A d \in DeviceIds : LastScore(d) > 0


\* The chunk hashes the last place_chunks call was given.
LastHashes == [i \in DOMAIN lastP.placements |-> lastP.placements[i].chunk_hash]

\* What a scheduler holding the same table can return for the arguments of
\* the last call.
SameTableAnswers ==
    CASE lastP.op = "place_chunks" ->
            place_chunks(devices_, replication_factor_, LastHashes, lastP.size)
      [] lastP.op = "place_shard" ->
            {<<p>> : p \in place_shard(devices_, replication_factor_,
                                       lastP.placements[1].chunk_hash, lastP.size)}
      [] lastP.op = "get_compute_devices" ->
            {<<[chunk_hash |-> <<>>, device_ids |-> selected, score |-> 0]>> :
                selected \in get_compute_devices(devices_, lastP.size)}
      [] OTHER -> {lastP.placements}

\* C31: place_chunks, place_shard and get_compute_devices leave the telemetry
\* table as it is, and what they return is what every scheduler holding the
\* same table returns for the same arguments.
C31_SchedulerPure ==
    [][lastP'.op \in {"place_chunks", "place_shard", "get_compute_devices"} =>
          /\ devices_' = devices_
          /\ SameTableAnswers' = {lastP'.placements}]_vars


\* The links of graph_ along a path, in path order.
PathLinks(path) == [i \in 1..(Len(path) - 1) |-> graph_[path[i]][path[i + 1]]]

RECURSIVE LatencySum(_)
LatencySum(links) ==
    IF links = <<>> THEN 0 ELSE Head(links).latency_ms + LatencySum(Tail(links))

\* The smallest bandwidth of the links, +infinity for none.
BandwidthMin(links) ==
    IF links = <<>> THEN INFINITY
    ELSE CHOOSE b \in {links[i].bandwidth_mbps : i \in DOMAIN links} :
            \A i \in DOMAIN links : b <= links[i].bandwidth_mbps

\* The product of the qualities of the links, 1.0 for none.
RECURSIVE QualityProduct(_)
QualityProduct(links) ==
    IF links = <<>> THEN QUALITY_ONE
    ELSE (Head(links).quality * QualityProduct(Tail(links))) \div QUALITY_ONE

\* C32: a non-empty path find_route returns comes with the sum of the
\* latencies, the minimum of the bandwidths and the product of the qualities
\* of the links graph_ holds between its consecutive devices.
C32_RouteMetrics ==
    (lastR.op = "find_route" /\ lastR.route.path # <<>>) =>
        LET path == lastR.route.path
        IN  /\ \A i \in 1..(Len(path) - 1) : path[i + 1] \in DOMAIN LinksOf(graph_, path[i])
            /\ lastR.route.total_latency_ms = LatencySum(PathLinks(path))
            /\ lastR.route.min_bandwidth_mbps = BandwidthMin(PathLinks(path))
            /\ lastR.route.quality_score = QualityProduct(PathLinks(path))

\* A route over two links or more, one of them a fast link whose quality
\* update_link has lowered, another a slow link.
C32_Witness ==
    /\ lastR.op = "find_route"
    /\ Len(lastR.route.path) >= 3
    /\ \E i, j \in DOMAIN PathLinks(lastR.route.path) :
          /\ PathLinks(lastR.route.path)[i].quality < QUALITY_ONE
          /\ PathLinks(lastR.route.path)[i].latency_ms = 10
          /\ PathLinks(lastR.route.path)[j].latency_ms = 15
    /\ lastR.route.quality_score = QUALITY_ONE \div 4


\* C33: the graph a get_neighbors or find_route call reads is symmetric, also
\* while another thread is inside add_link, update_link or remove_link: (u, v)
\* is present exactly when (v, u) is, and with the same quality.
C33_ReadersSeeSymmetric ==
    lastR.op \in {"get_neighbors", "find_route"} =>
        \A u, v \in Routers :
            v \in get_neighbors(graph_, u) =>
                /\ u \in get_neighbors(graph_, v)
                /\ graph_[u][v].quality = graph_[v][u].quality


\* The places (chunk hash, position) of the history entries of node n.
Places(n) == UNION {{<<h, i>> : i \in DOMAIN dag_[n][h]} : h \in DOMAIN dag_[n]}

\* C34: no two history entries of a ledger have the same entry_id, every
\* history entry is the entry the index holds under its id, and the index
\* holds as many entries as the histories together.
C34_IndexMatchesHistories ==
    \A n \in Nodes :
        /\ \A p, q \in Places(n) :
              dag_[n][p[1]][p[2]].entry_id = dag_[n][q[1]][q[2]].entry_id => p = q
        /\ \A p \in Places(n) :
              LET entry == dag_[n][p[1]][p[2]]
              IN  /\ entry.entry_id \in DOMAIN entry_by_id_[n]
                  /\ entry_by_id_[n][entry.entry_id] = entry
        /\ Cardinality(DOMAIN entry_by_id_[n]) = Cardinality(Places(n))


\* Nodes A and B each created, as the first entry of chunk h, an entry for the
\* same device list, and each was handed the other's entry afterwards.
Twins(h) ==
    /\ created["A"] # <<>> /\ created["B"] # <<>>
    /\ created["A"][1].chunk_hash = h /\ created["B"][1].chunk_hash = h
    /\ created["A"][1].device_ids = created["B"][1].device_ids
    /\ created["A"][1].version = 1 /\ created["B"][1].version = 1
    /\ created["B"][1] \in offered["A"]
    /\ created["A"][1] \in offered["B"]

\* The entries of node n's history of h that carry the id of entry.
HeldUnder(n, h, entry) ==
    {i \in DOMAIN get_history(n, h) : get_history(n, h)[i].entry_id = entry.entry_id}

list_chunks(content_id) ==
    IF content_id \in DOMAIN content_map_ THEN content_map_[content_id] ELSE <<>>

\* ChunkStore::get_content_address: the digest of the hashes put end to end,
\* the empty string for an unknown content.
get_content_address(content_id) ==
    IF content_id \notin DOMAIN content_map_ THEN <<>>
    ELSE compute_hash(Flatten(content_map_[content_id]))

NoChunk == <<>>

\* ChunkStore::get_chunk, NoChunk standing for nullptr.
get_chunk(hash) == IF hash \in DOMAIN chunks_ THEN chunks_[hash] ELSE NoChunk

\* The hashes of the chunk records in the backing store.
PersistedHashes == {k[2] : k \in {k \in DOMAIN db_ : k[1] = "chunk"}}

\* C36: list_chunks, get_content_address and get_chunk answer from memory.
\* Right after a store is opened they give the empty list, the empty string
\* and null, also for contents and chunks persisted on its path; what they
\* give for a content changes only in a store or retrieve of that content;
\* after the first retrieve of a persisted content they give its stored hash
\* list and the digest of the hashes put end to end, and a chunk that was
\* null and is not any more was loaded by a retrieve or written by a store.
C36_ReadersUseMemory ==
    [][/\ last'.op = "open" =>
             /\ \A c \in ContentIds :
                   list_chunks(c)' = <<>> /\ get_content_address(c)' = <<>>
             /\ \A h \in PersistedHashes' : get_chunk(h)' = NoChunk
       /\ \A c \in ContentIds :
             (\/ list_chunks(c)' # list_chunks(c)
              \/ get_content_address(c)' # get_content_address(c)) =>
                 \/ last'.op = "open"
                 \/ last'.op \in {"store", "retrieve"} /\ last'.cid = c
       /\ \A c \in ContentIds :
             (/\ last'.op = "retrieve" /\ last'.cid = c
              /\ last'.cold /\ last'.status # "not_found") =>
                 LET stored == log[LastStoreOf(c)].hashes
                 IN  /\ list_chunks(c)' = stored
                     /\ get_content_address(c)' = compute_hash(Flatten(stored))
       /\ \A h \in PersistedHashes :
             (get_chunk(h) = NoChunk /\ get_chunk(h)' # NoChunk) =>
                 /\ last'.op \in {"store", "retrieve"}
                 /\ \E c \in ContentIds : last'.cid = c /\ h \in Range(list_chunks(c)')]_vars

\* A reopened store has answered its first retrieve of a content of two
\* chunks, and still holds no mapping for the other content persisted.
C36_Witness ==
    /\ last.op = "retrieve" /\ last.cold /\ last.status = "ok"
    /\ Len(list_chunks(last.cid)) = 2
    /\ Range(list_chunks(last.cid)) \subseteq DOMAIN chunks_
    /\ \E c \in ContentIds :
          /\ MapKey(c) \in DOMAIN db_
          /\ list_chunks(c) = <<>>
          /\ get_content_address(c) = <<>>
          /\ ParseMapping(db_[MapKey(c)]) # <<>>


\* graph_ after the metrics loop has read graph_[path[i]][path[i + 1]] from
\* edge i on: operator[] puts a default Link (quality 1, 10 ms, 100 Mbps, no
\* device names) where it finds none.
RECURSIVE Accessed(_, _, _)
Accessed(graph, path, i) ==
    IF i >= Len(path) THEN graph
    ELSE Accessed(
             IF path[i + 1] \in DOMAIN LinksOf(graph, path[i]) THEN graph
             ELSE PutLink(graph, path[i], path[i + 1],
                          [quality |-> QUALITY_ONE, latency_ms |-> 10, bandwidth_mbps |-> 100,
                           from_device |-> "", to_device |-> ""]),
             path, i + 1)

\* C37: a non-empty path find_route returns goes from source to dest over
\* links of the graph and visits no device twice, and the call leaves the
\* graph without a new device or link.
C37_PathWellFormed ==
    (lastR.op = "find_route" /\ lastR.route.path # <<>>) =>
        LET path == lastR.route.path
        IN  /\ path[1] = lastR.from
            /\ path[Len(path)] = lastR.to
            /\ \A i \in 1..(Len(path) - 1) : path[i + 1] \in get_neighbors(graph_, path[i])
            /\ \A i, j \in DOMAIN path : path[i] = path[j] => i = j
            /\ Accessed(graph_, path, 1) = graph_

\* A route over two links in a graph where every device has two neighbours or
\* more.
C37_Witness ==
    /\ lastR.op = "find_route"
    /\ Len(lastR.route.path) = 3
    /\ \A u \in Routers : Cardinality(get_neighbors(graph_, u)) >= 2


\* The store calls so far are two unencrypted stores under content_id, both on
\* the path that is open.
StoredTwice(content_id) ==
    /\ Len(log) = 2
    /\ \A i \in 1..2 :
          log[i].cid = content_id /\ ~log[i].encrypt /\ log[i].path = db_path

\* The hashes of chunks of the first payload that are not chunks of the second.
Superseded == Range(log[1].hashes) \ Range(log[2].hashes)

\* The hash lists the content mappings hold, in memory and in the backing store.
MappedLists ==
    {content_map_[c] : c \in DOMAIN content_map_} \cup
    {ParseMapping(db_[MapKey(c)]) : c \in {c \in ContentIds : MapKey(c) \in DOMAIN db_}}

\* C38: after two unencrypted stores under one content id, retrieve returns
\* the second payload and list_chunks the second hash list, in the instance
\* that stored and in one reopened on the path; the persisted mapping is the
\* second hash list; the chunks of the first payload that the second does not
\* have keep their records in the backing store and are in no content mapping,
\* and no step but an open takes a chunk off the chunk table or a record off
\* the backing store.
C38_SecondStoreReplaces ==
    [][/\ last'.op # "open" =>
             /\ DOMAIN chunks_ \subseteq DOMAIN chunks_'
             /\ DOMAIN db_ \subseteq DOMAIN db_'
       /\ \A c \in ContentIds :
             StoredTwice(c)' =>
                 /\ (last'.op = "retrieve" /\ last'.cid = c) =>
                       (last'.status = "ok" /\ last'.data = log'[2].data)
                 /\ c \in DOMAIN content_map_' => list_chunks(c)' = log'[2].hashes
                 /\ ParseMapping(db_'[MapKey(c)]) = log'[2].hashes
                 /\ \A h \in Superseded' :
                       /\ ChunkKey(h) \in DOMAIN db_'
                       /\ \A hashes \in MappedLists' : h \notin Range(hashes)]_vars

\* A reopened store has returned the second payload of a content whose first
\* payload had a chunk the second has not.
C38_Witness ==
    /\ last.op = "retrieve" /\ last.cold /\ last.status = "ok"
    /\ StoredTwice(last.cid)
    /\ last.data = log[2].data
    /\ log[1].data # log[2].data
    /\ Superseded # {}
    /\ log[2].hashes # <<>>


\* C39: every content id of the in-memory content map has a persisted
\* "content_map:" record that parses to the same ordered hash list, and every
\* hash of that list has a persisted "chunk:" record.
C39_MapWrittenThrough ==
    \A c \in DOMAIN content_map_ :
        /\ MapKey(c) \in DOMAIN db_
        /\ ParseMapping(db_[MapKey(c)]) = content_map_[c]
        /\ \A i \in DOMAIN content_map_[c] : ChunkKey(content_map_[c][i]) \in DOMAIN db_

\* A reopened store has loaded a mapping of two hashes by a retrieve, beside
\* a mapping a store of this instance wrote.
C39_Witness ==
    /\ last.op = "retrieve" /\ last.cold /\ last.status = "ok"
    /\ Len(content_map_[last.cid]) = 2
    /\ fresh # {}
    /\ DOMAIN content_map_ = ContentIds

====
